---- MODULE Spec2Model ----
(***************************************************************************)
(* Tracking core of the Framerly AR engine: the PoseFilter, the             *)
(* PlaneTracker (surface registry, aging sweep, tracking-state machine)    *)
(* and the FramerlyAREngine (session life cycle, render loop, placement).  *)
(*                                                                         *)
(* Units.  Time is in milliseconds (performance.now()).  Positions are     *)
(* fixed-point triples in millimetres; a float product is rounded down to  *)
(* the millimetre.  A rotation is restricted to rotations about the X      *)
(* axis and is the rotation angle in tenths of a degree (0 .. 900), for    *)
(* which the spherical interpolation of two rotations is the linear        *)
(* interpolation of their angles.  All reads of performance.now() inside   *)
(* one synchronous handler return the same value.                          *)
(***************************************************************************)
EXTENDS Integers, Sequences, FiniteSets, TLC

VARIABLES
  clock,          \* the latest value read from performance.now()
  xrSession,      \* PlaneTracker.xrSession is set
  xrRefSpace,     \* PlaneTracker.xrRefSpace is set
  hitTestSource,  \* PlaneTracker.hitTestSource is set
  endListener,    \* the 'end' listener is attached to the live session
  planes,         \* PlaneTracker.planes : planeId -> PlaneData
  poseFilter,     \* PlaneTracker.poseFilter (the one PoseFilter instance)
  trackingState,  \* PlaneTracker.trackingState
  freshCount,     \* number of generated fallback plane ids so far
  delivered,      \* number of plane samples delivered so far (bounded)
  seenAt,         \* history: times at which each plane id was ingested in this session
  obs,            \* history: what the last operation did and dispatched
  ended,          \* the session held in PlaneTracker.xrSession has ended
  isInitialized,  \* FramerlyAREngine.isInitialized
  isRunning,      \* FramerlyAREngine.isRunning
  xrPending,      \* frame callbacks pending on the session
  fbPending,      \* animate callbacks pending on window.requestAnimationFrame
  stopPhase,      \* "ending" while a stop() call awaits endSession()
  stopped,        \* history: stop() has resolved and no session was started since
  currentMode,    \* FramerlyAREngine.currentMode
  arObjects,      \* FramerlyAREngine.arObjects : objectId -> FrameData | NeonData
  frameObjects,   \* Renderer.frameObjects : id -> position of the group
  neonObjects,    \* Renderer.neonObjects : id -> position of the group
  objectCount,    \* number of object ids generated so far
  pendingPlace,   \* placeObject calls awaiting the styling recommendation
  issued,         \* history: every object id generated so far
  eobs,           \* history: the last engine operation and its outcome
  fhist,          \* history: the calls made on a PoseFilter driven directly
  trackerCallbacks, \* PlaneTracker.onPlaneDetectedCallback, onTrackingStateChangedCallback
  engineCallbacks,  \* FramerlyAREngine.onPlaneDetectedCallback, onTrackingStateCallback
  registered,     \* history: the callbacks registered on the engine, per event kind
  erred,          \* history: a tick of the render loop hit a subsystem error
  disposed,       \* history: dispose() has been called on the engine
  apiConfig,      \* AIConnector.config
  cache,          \* AIConnector.cache : key -> AIRecommendation[]
  cacheExpiry,    \* AIConnector.cacheExpiry : key -> time
  request,        \* the recommendation lookup that is awaiting makeRequest
  wallClock,      \* Date.now()
  storedAt,       \* history: when the list cached under a key was stored
  lookups,        \* history: the number of recommendation lookups issued
  aobs            \* history: the last recommendation lookup and its outcome

\* the state of the PlaneTracker and its PoseFilter
tvars == << clock, xrSession, xrRefSpace, hitTestSource, endListener, planes,
            poseFilter, trackingState, freshCount, delivered, seenAt, obs >>

\* the session life cycle and the render loop of the engine
lvars == << ended, isInitialized, isRunning, xrPending, fbPending, stopPhase,
            stopped >>

\* the placement state of the engine and of its renderer
pvars == << currentMode, arObjects, frameObjects, neonObjects, objectCount,
            pendingPlace, issued >>

\* the histories of the filter calls and of the event subscriptions
cvars == << trackerCallbacks, engineCallbacks, registered >>
evars == << erred, disposed >>

\* the AIConnector
avars == << apiConfig, cache, cacheExpiry, request, wallClock, storedAt,
            lookups, aobs >>
hvars == << fhist, cvars, evars, avars >>

vars == << tvars, lvars, pvars, eobs, hvars >>

(***************************************************************************)
(* Bounds of the model                                                     *)
(***************************************************************************)
MaxTime == 10100
MaxSamples == 2
MaxFresh == 1
MaxLoops == 1      \* animate loops started and not yet finished
MaxChains == 2     \* frame callbacks pending at once when start() is repeated
MaxLookups == 2    \* recommendation lookups issued on one AIConnector
MaxWallClock == 310000  \* Date.now(), in ms since the connector was made
MaxObjects == 2    \* placeObject calls
MaxCalls == 5      \* filter calls on a PoseFilter driven directly
MaxHistoryCalls == 12    \* filter calls on a PoseFilter in a long run
MaxConfiguredCalls == 3  \* filter calls on a PoseFilter with chosen options
MaxReconfig == 1   \* constructions and option updates of that PoseFilter
MaxRegistrations == 3  \* callback registrations on the engine

\* the instants at which handlers run: around the two aging windows
Instants == { t \in {0, 100, 4900, 5100, 10100, 15000, 15100} : t <= MaxTime }

(***************************************************************************)
(* Program constants                                                       *)
(***************************************************************************)
positionSmoothingFactor == 8      \* 0.8, in tenths
rotationSmoothingFactor == 9      \* 0.9, in tenths
maxJitterThreshold == 10          \* 0.01 m, in millimetres
stabilizationTime == 1000         \* ms
VelocityHistoryLen == 10          \* "last 10 frames"
ActiveTimeout == 5000             \* "5 second timeout"
timeout == 10000                  \* "10 seconds"
VerticalLimit == 300              \* |normal.y| < 0.5  <=>  angle < 30.0 degrees
DefaultSize == 2000               \* "2m x 2m default", in millimetres
maxPlanes == 10                   \* the default surface cap of the engine

NOT_TRACKING == "not_tracking"
LIMITED == "limited"
TRACKING == "tracking"
TrackingStates == {NOT_TRACKING, LIMITED, TRACKING}

FRAME == "frame"
NEON == "neon"
ARModes == {FRAME, NEON}

\* optional values: undefined is the empty sequence, a value v is <<v>>
Undefined == << >>
Some(v) == << v >>
\* JavaScript's !x for an optional number: undefined and 0 are both falsy
IsFalsy(opt) == opt = Undefined \/ opt = Some(0)

Range(s) == { s[i] : i \in 1..Len(s) }

Abs(n) == IF n < 0 THEN -n ELSE n

RECURSIVE SqrtBetween(_, _, _)
SqrtBetween(n, lo, hi) ==
  IF lo >= hi THEN lo
  ELSE LET mid == (lo + hi + 1) \div 2
       IN  IF mid * mid <= n THEN SqrtBetween(n, mid, hi)
           ELSE SqrtBetween(n, lo, mid - 1)

\* floor of the square root
ISqrt(n) == SqrtBetween(n, 0, 46340)

RECURSIVE SumSeq(_)
SumSeq(s) == IF s = << >> THEN 0 ELSE Head(s) + SumSeq(Tail(s))

(***************************************************************************)
(* PoseFilter                                                              *)
(***************************************************************************)
\* { ...base, ...over }: the fields of over replace or extend those of base
spread_baseWins(base, over) ==
  [ k \in DOMAIN base \cup DOMAIN over |->
      IF k \in DOMAIN base THEN base[k] ELSE over[k] ]

spread(base, over) ==
  [ k \in DOMAIN base \cup DOMAIN over |->
      IF k \in DOMAIN over THEN over[k] ELSE base[k] ]

\* the defaults of the PoseFilter constructor
DefaultOptions ==
  [ positionSmoothingFactor |-> positionSmoothingFactor,
    rotationSmoothingFactor |-> rotationSmoothingFactor,
    maxJitterThreshold |-> maxJitterThreshold,
    stabilizationTime |-> stabilizationTime ]

\* new PoseFilter(options)
PoseFilterNew(options) ==
  [ options |-> spread(DefaultOptions, options),
    lastPosition |-> Undefined,
    lastRotation |-> Undefined,
    velocityHistory |-> << >>,
    stabilizationStartTime |-> Undefined,
    isStable |-> FALSE ]

\* new PoseFilter()
NewPoseFilter == PoseFilterNew(<< >>)

\* Vector3.distanceTo
distanceTo(a, b) ==
  ISqrt((a[1] - b[1]) * (a[1] - b[1]) + (a[2] - b[2]) * (a[2] - b[2])
        + (a[3] - b[3]) * (a[3] - b[3]))

smoothPosition_swapped(f, newPosition) ==
  IF f.lastPosition = Undefined THEN newPosition
  ELSE LET last == f.lastPosition[1]
       IN  [ i \in 1..3 |->
               (last[i] * (10 - f.options.positionSmoothingFactor)
                + newPosition[i] * f.options.positionSmoothingFactor)
               \div 10 ]

smoothPosition(f, newPosition) ==
  IF f.lastPosition = Undefined THEN newPosition
  ELSE LET last == f.lastPosition[1]
       IN  [ i \in 1..3 |->
               (last[i] * f.options.positionSmoothingFactor
                + newPosition[i] * (10 - f.options.positionSmoothingFactor))
               \div 10 ]

\* slerpQuaternions(newRotation, lastRotation, factor): from new towards last
smoothRotation(f, newRotation) ==
  IF f.lastRotation = Undefined THEN newRotation
  ELSE LET last == f.lastRotation[1]
       IN  (newRotation * (10 - f.options.rotationSmoothingFactor)
            + last * f.options.rotationSmoothingFactor) \div 10

updateVelocityHistory_dropNewest(f, delta) ==
  LET pushed == Append(f.velocityHistory, delta)
  IN  [ f EXCEPT !.velocityHistory =
          IF Len(pushed) > VelocityHistoryLen
          THEN SubSeq(pushed, 1, VelocityHistoryLen) ELSE pushed ]

updateVelocityHistory(f, delta) ==
  LET pushed == Append(f.velocityHistory, delta)
  IN  [ f EXCEPT !.velocityHistory =
          IF Len(pushed) > VelocityHistoryLen THEN Tail(pushed) ELSE pushed ]

updateStabilityState_jitterOnly(f, positionDelta, currentTime) ==
  IF positionDelta < f.options.maxJitterThreshold
  THEN LET start == IF IsFalsy(f.stabilizationStartTime)
                    THEN currentTime
                    ELSE f.stabilizationStartTime[1]
       IN  [ f EXCEPT !.stabilizationStartTime = Some(start),
                       !.isStable =
                         (currentTime - start >= f.options.stabilizationTime) ]
  ELSE [ f EXCEPT !.stabilizationStartTime = Undefined,
                  !.isStable = FALSE ]

updateStabilityState_keepClock(f, positionDelta, currentTime) ==
  LET isLowJitter == positionDelta < f.options.maxJitterThreshold
      isLowVelocity == SumSeq(f.velocityHistory)
                         < f.options.maxJitterThreshold * Len(f.velocityHistory)
  IN  IF isLowJitter /\ isLowVelocity
      THEN LET start == IF IsFalsy(f.stabilizationStartTime)
                        THEN currentTime
                        ELSE f.stabilizationStartTime[1]
           IN  [ f EXCEPT !.stabilizationStartTime = Some(start),
                           !.isStable =
                             (currentTime - start >= f.options.stabilizationTime) ]
      ELSE [ f EXCEPT !.isStable = FALSE ]

updateStabilityState(f, positionDelta, currentTime) ==
  LET isLowJitter == positionDelta < f.options.maxJitterThreshold
      \* avgVelocity < threshold, with avgVelocity = sum / length
      isLowVelocity == SumSeq(f.velocityHistory)
                         < f.options.maxJitterThreshold * Len(f.velocityHistory)
  IN  IF isLowJitter /\ isLowVelocity
      THEN LET start == IF IsFalsy(f.stabilizationStartTime)
                        THEN currentTime
                        ELSE f.stabilizationStartTime[1]
           IN  [ f EXCEPT !.stabilizationStartTime = Some(start),
                           !.isStable =
                             (currentTime - start >= f.options.stabilizationTime) ]
      ELSE [ f EXCEPT !.stabilizationStartTime = Undefined,
                      !.isStable = FALSE ]

\* PoseFilter.filter: the new filter state and the returned value
filter(f, position, rotation, now) ==
  IF f.lastPosition = Undefined \/ f.lastRotation = Undefined
  THEN [ f |-> [ f EXCEPT !.lastPosition = Some(position),
                          !.lastRotation = Some(rotation),
                          !.stabilizationStartTime = Some(now) ],
         position |-> position,
         rotation |-> rotation,
         isStable |-> FALSE ]
  ELSE LET positionDelta == distanceTo(position, f.lastPosition[1])
           f1 == updateVelocityHistory(f, positionDelta)
           smoothedPosition == smoothPosition(f1, position)
           smoothedRotation == smoothRotation(f1, rotation)
           f2 == updateStabilityState(f1, positionDelta, now)
       IN  [ f |-> [ f2 EXCEPT !.lastPosition = Some(smoothedPosition),
                               !.lastRotation = Some(smoothedRotation) ],
             position |-> smoothedPosition,
             rotation |-> smoothedRotation,
             isStable |-> f2.isStable ]

reset_keepHistory(f) ==
  [ f EXCEPT !.lastPosition = Undefined,
             !.lastRotation = Undefined,
             !.stabilizationStartTime = Undefined,
             !.isStable = FALSE ]

\* PoseFilter.reset
reset(f) ==
  [ f EXCEPT !.lastPosition = Undefined,
             !.lastRotation = Undefined,
             !.velocityHistory = << >>,
             !.stabilizationStartTime = Undefined,
             !.isStable = FALSE ]

\* PoseFilter.getStabilityState
getStabilityState(f) == f.isStable

\* PoseFilter.updateOptions
updateOptions(f, options) == [ f EXCEPT !.options = spread(@, options) ]

(***************************************************************************)
(* What the tracking subsystem delivers                                    *)
(***************************************************************************)
NoId == ""                      \* xrPlane.planeId is missing (falsy)
PlaneIds == {"p1", "p2"}

WallSample(id) ==
  [ planeId |-> id, getPose |-> "pose",
    position |-> <<0, 0, 0>>, rotation |-> 0,
    polygon |-> Some(<<0, 0, 1000, 0, 1000, 1000>>) ]

FloorSample(id) ==
  [ planeId |-> id, getPose |-> "pose",
    position |-> <<1000, 0, 0>>, rotation |-> 900,
    polygon |-> Undefined ]

\* frame.getPose returns null, or throws
NullSample == [ WallSample(NoId) EXCEPT !.getPose = "null" ]
ThrowSample == [ WallSample(NoId) EXCEPT !.getPose = "throws" ]

XRPlanes ==
  { WallSample(id) : id \in PlaneIds \cup {NoId} }
    \cup { FloorSample(id) : id \in {"p2"} }
    \cup { NullSample, ThrowSample }

SeqsUpTo(S, n) == UNION { [1..k -> S] : k \in 0..n }

\* the planes of one frame carry distinct identifiers
DistinctIds(ps) ==
  \A i, j \in 1..Len(ps) :
    (i # j /\ ps[i].planeId # NoId) => ps[i].planeId # ps[j].planeId

NumNoId(ps) == Cardinality({ i \in 1..Len(ps) : ps[i].planeId = NoId })

\* frame.detectedPlanes: undefined, or at most n planes
\* frame.getHitTestResults: no result, one result, or an exception
XRFrames(n) ==
  { [ detectedPlanes |-> dp, hitTestResults |-> h ] :
      dp \in {Undefined}
               \cup { Some(ps) : ps \in { q \in SeqsUpTo(XRPlanes, n) : DistinctIds(q) } },
      h \in {"empty", "hit", "throws"} }

NumPlanes(frame) ==
  IF frame.detectedPlanes = Undefined THEN 0 ELSE Len(frame.detectedPlanes[1])

NoFrame == [ detectedPlanes |-> Undefined, hitTestResults |-> "empty" ]

(***************************************************************************)
(* PlaneTracker                                                            *)
(***************************************************************************)
\* `plane_${Date.now()}_${Math.random()}`: an identifier never produced before
GeneratedPlaneId(n) == "plane_" \o ToString(n)

\* Math.abs(normal.y) < 0.5 for normal = (0,0,1) rotated by the filtered rotation
isVertical(rotation) == Abs(rotation) < VerticalLimit

extractPlanePolygon(xrPlane) ==
  IF xrPlane.polygon # Undefined
  THEN LET flat == xrPlane.polygon[1]
       IN  [ k \in 1..(Len(flat) \div 2) |-> << flat[2 * k - 1], 0, flat[2 * k] >> ]
  ELSE << << -(DefaultSize \div 2), 0, -(DefaultSize \div 2) >>,
          << DefaultSize \div 2, 0, -(DefaultSize \div 2) >>,
          << DefaultSize \div 2, 0, DefaultSize \div 2 >>,
          << -(DefaultSize \div 2), 0, DefaultSize \div 2 >> >>

\* mutant: the record is stored under its orientation instead of its id
planesSet_byOrientation(ps, planeId, planeData) ==
  [ k \in DOMAIN ps \cup {planeData.orientation} |->
      IF k = planeData.orientation THEN planeData ELSE ps[k] ]

\* mutant: an existing record keeps its time stamp
planesSet_keepStamp(ps, planeId, planeData) ==
  [ k \in DOMAIN ps \cup {planeId} |->
      IF k # planeId THEN ps[k]
      ELSE IF planeId \in DOMAIN ps
      THEN [ planeData EXCEPT !.lastUpdate = ps[planeId].lastUpdate ]
      ELSE planeData ]

\* this.planes.set(planeId, planeData)
planesSet(ps, planeId, planeData) ==
  [ k \in DOMAIN ps \cup {planeId} |-> IF k = planeId THEN planeData ELSE ps[k] ]

\* the filter that smooths the pose of plane planeId
poseFilterFor(acc, planeId) == acc.poseFilter

\* mutant: the callback is invoked for every stored sample
planeDetectedNotes_always(existing, planeId) == << planeId >>

\* the onPlaneDetected notifications of one stored sample
planeDetectedNotes(existing, planeId) ==
  IF ~existing THEN << planeId >> ELSE << >>

\* the body of detectedPlanes.forEach for one plane
ingest(acc, xrPlane, now) ==
  LET hasId == xrPlane.planeId # NoId
      planeId == IF hasId THEN xrPlane.planeId
                 ELSE GeneratedPlaneId(acc.freshCount + 1)
      fresh == IF hasId THEN acc.freshCount ELSE acc.freshCount + 1
  IN  IF xrPlane.getPose = "throws"
      THEN [ acc EXCEPT !.threw = TRUE, !.freshCount = fresh ]
      ELSE IF xrPlane.getPose = "null"
      THEN [ acc EXCEPT !.freshCount = fresh ]
      ELSE LET filtered == filter(poseFilterFor(acc, planeId),
                                  xrPlane.position, xrPlane.rotation, now)
               planeData ==
                 [ id |-> planeId,
                   pose |-> [ position |-> filtered.position,
                              orientation |-> filtered.rotation ],
                   polygon |-> extractPlanePolygon(xrPlane),
                   orientation |-> IF isVertical(filtered.rotation)
                                   THEN "vertical" ELSE "horizontal",
                   lastUpdate |-> now ]
               existing == planeId \in DOMAIN acc.planes
           IN  [ acc EXCEPT !.planes = planesSet(acc.planes, planeId, planeData),
                            !.poseFilter = filtered.f,
                            !.freshCount = fresh,
                            !.detected = @ \o planeDetectedNotes(existing, planeId),
                            !.ingested = Append(@, planeId) ]

RECURSIVE forEachPlane(_, _, _)
forEachPlane(acc, detectedPlanes, now) ==
  IF detectedPlanes = << >> \/ acc.threw THEN acc
  ELSE forEachPlane(ingest(acc, Head(detectedPlanes), now),
                    Tail(detectedPlanes), now)

\* mutant: one window, surfaces are evicted as soon as they are inactive
cleanupOldPlanes_activeWindow(ps, now) ==
  [ k \in { id \in DOMAIN ps : ~(now - ps[id].lastUpdate > ActiveTimeout) } |-> ps[k] ]

cleanupOldPlanes(ps, now) ==
  [ k \in { id \in DOMAIN ps : ~(now - ps[id].lastUpdate > timeout) } |-> ps[k] ]

updatePlaneDetection(acc, frame, now) ==
  IF frame.detectedPlanes = Undefined THEN acc
  ELSE LET a == forEachPlane(acc, frame.detectedPlanes[1], now)
       IN  IF a.threw THEN a
           ELSE [ a EXCEPT !.planes = cleanupOldPlanes(a.planes, now),
                           !.swept = TRUE ]

\* mutant: the callback is invoked on every call, changed or not
updateTrackingState_always(tr, newState) ==
  [ state |-> newState,
    notes |-> Append(tr.notes, newState),
    held |-> Append(tr.held, newState) ]

\* tr = [state, notes, held]: the held value, the notifications dispatched so
\* far by the running operation, and the value held after each call so far
updateTrackingState(tr, newState) ==
  IF tr.state # newState
  THEN [ state |-> newState,
         notes |-> Append(tr.notes, newState),
         held |-> Append(tr.held, newState) ]
  ELSE [ tr EXCEPT !.held = Append(@, tr.state) ]

updateHitTest(tr, hasSource, frame) ==
  IF ~hasSource THEN [ tr |-> tr, threw |-> FALSE ]
  ELSE IF frame.hitTestResults = "throws" THEN [ tr |-> tr, threw |-> TRUE ]
  ELSE IF frame.hitTestResults = "hit"
  THEN [ tr |-> updateTrackingState(tr, TRACKING), threw |-> FALSE ]
  ELSE [ tr |-> updateTrackingState(tr, LIMITED), threw |-> FALSE ]

\* mutant: one window, a surface is active until it is evicted
activePlanes_staleWindow(ps, now) ==
  { id \in DOMAIN ps : now - ps[id].lastUpdate < timeout }

activePlanes(ps, now) ==
  { id \in DOMAIN ps : now - ps[id].lastUpdate < ActiveTimeout }

updateTrackingStability(tr, ps, now) ==
  LET activeePlanes == activePlanes(ps, now)
  IN  IF activeePlanes = {} THEN updateTrackingState(tr, NOT_TRACKING)
      ELSE IF \E id \in activeePlanes : ps[id].orientation = "vertical"
      THEN updateTrackingState(tr, TRACKING)
      ELSE updateTrackingState(tr, LIMITED)

getDetectedPlanes == { planes[k] : k \in DOMAIN planes }
getTrackingState == trackingState

(***************************************************************************)
(* Operations of the PlaneTracker                                          *)
(***************************************************************************)
\* the record of an operation that did nothing, and of no operation ("idle")
IdleObs(op) ==
  [ op |-> op, ran |-> FALSE, swept |-> FALSE, recomputed |-> FALSE,
    threw |-> FALSE, held |-> << >>, notes |-> << >>,
    detected |-> << >>, ingested |-> << >>, frame |-> NoFrame ]

\* handlers run one at a time, each in a task of its own
NoTaskRunning == obs.op = "idle"

StartTr == [ state |-> trackingState, notes |-> << >>, held |-> << >> ]

NoteSeen(seen, ids, now) ==
  [ k \in DOMAIN seen \cup Range(ids) |->
      IF k \in Range(ids)
      THEN (IF k \in DOMAIN seen THEN seen[k] ELSE {}) \cup {now}
      ELSE seen[k] ]

\* PlaneTracker.initializeXR, by what the platform answers
InitializeXR(outcome) ==
  /\ NoTaskRunning
  /\ outcome \in {"ok", "no_hit_test", "no_session", "no_ref_space"}
  /\ outcome # "no_session" => (~xrSession \/ ended)
  /\ IF outcome = "no_session"
     THEN /\ obs' = IdleObs("initializeXR")
          /\ UNCHANGED << xrSession, xrRefSpace, hitTestSource, endListener,
                          trackingState >>
     ELSE IF outcome = "no_ref_space"
     THEN /\ xrSession' = TRUE
          /\ obs' = IdleObs("initializeXR")
          /\ UNCHANGED << xrRefSpace, hitTestSource, endListener, trackingState >>
     ELSE LET tr == updateTrackingState(StartTr, LIMITED)
          IN  /\ xrSession' = TRUE
              /\ xrRefSpace' = TRUE
              /\ hitTestSource' = (outcome = "ok")
              /\ endListener' = TRUE
              /\ trackingState' = tr.state
              /\ obs' = [ IdleObs("initializeXR") EXCEPT
                            !.ran = TRUE, !.held = tr.held, !.notes = tr.notes ]
  /\ UNCHANGED << clock, planes, poseFilter, freshCount, delivered, seenAt >>

\* PlaneTracker.update(frame, renderer), with now the value that
\* performance.now() returns while it runs
Update(frame, now) ==
  /\ NoTaskRunning
  /\ now \in Instants /\ now >= clock
  /\ clock' = now
  /\ delivered + NumPlanes(frame) <= MaxSamples
  /\ delivered' = delivered + NumPlanes(frame)
  /\ IF ~xrSession \/ ~xrRefSpace
     THEN /\ frame = NoFrame
          /\ obs' = IdleObs("update")
          /\ UNCHANGED << planes, poseFilter, trackingState, freshCount, seenAt >>
     ELSE /\ ~hitTestSource => frame.hitTestResults = "empty"
          /\ frame.detectedPlanes # Undefined =>
               freshCount + NumNoId(frame.detectedPlanes[1]) <= MaxFresh
          /\ LET acc0 == [ planes |-> planes, poseFilter |-> poseFilter,
                           freshCount |-> freshCount, detected |-> << >>,
                           ingested |-> << >>, threw |-> FALSE, swept |-> FALSE ]
                 pd == updatePlaneDetection(acc0, frame, now)
                 ht == IF pd.threw THEN [ tr |-> StartTr, threw |-> TRUE ]
                       ELSE updateHitTest(StartTr, hitTestSource, frame)
                 tr == IF ht.threw THEN updateTrackingState(ht.tr, LIMITED)
                       ELSE updateTrackingStability(ht.tr, pd.planes, now)
             IN  /\ planes' = pd.planes
                 /\ poseFilter' = pd.poseFilter
                 /\ freshCount' = pd.freshCount
                 /\ trackingState' = tr.state
                 /\ seenAt' = NoteSeen(seenAt, pd.ingested, now)
                 /\ obs' = [ op |-> "update", ran |-> TRUE, swept |-> pd.swept,
                             recomputed |-> ~ht.threw, threw |-> ht.threw,
                             held |-> tr.held,
                             notes |-> tr.notes, detected |-> pd.detected,
                             ingested |-> pd.ingested, frame |-> frame ]
  /\ UNCHANGED << xrSession, xrRefSpace, hitTestSource, endListener >>

\* PlaneTracker.onSessionEnd, the handler of the session's 'end' event
OnSessionEnd ==
  /\ NoTaskRunning
  /\ xrSession /\ endListener
  /\ LET tr == updateTrackingState(StartTr, NOT_TRACKING)
     IN  /\ xrSession' = FALSE
         /\ xrRefSpace' = FALSE
         /\ hitTestSource' = FALSE
         /\ endListener' = FALSE
         /\ planes' = << >>
         /\ trackingState' = tr.state
         /\ seenAt' = << >>
         /\ obs' = [ IdleObs("onSessionEnd") EXCEPT
                       !.ran = TRUE, !.held = tr.held, !.notes = tr.notes ]
  /\ UNCHANGED << clock, poseFilter, freshCount, delivered >>

\* the task of the last handler has ended and what it dispatched is consumed
EndOfTask ==
  /\ ~NoTaskRunning
  /\ obs' = IdleObs("idle")
  /\ UNCHANGED << clock, xrSession, xrRefSpace, hitTestSource, endListener,
                  planes, poseFilter, trackingState, freshCount, delivered,
                  seenAt >>

\* the record of an engine operation: its name, its argument, whether it
\* raised to its caller, and what it returned
EObs(op, arg, raised, result) ==
  [ op |-> op, arg |-> arg, raised |-> raised, result |-> result ]

IdleEObs == EObs("none", Undefined, FALSE, Undefined)

\* callback = f: the assignment made by the four registration methods
register_keepFirst(field, callback) ==
  IF field = Undefined THEN Some(callback) ELSE field

register(field, callback) == Some(callback)

\* the closures the engine's constructor registers on its tracker; each
\* forwards the event to the callback field of the engine
Forwarder == "forward"

setupEventHandlers ==
  [ onTrackingStateChangedCallback |-> register(Undefined, Forwarder),
    onPlaneDetectedCallback |-> register(Undefined, Forwarder) ]

\* field?.(event): the invocations made, in order
optionalCall(field, event) ==
  IF field = Undefined THEN << >>
  ELSE << [ callback |-> field[1], event |-> event ] >>

\* the tracker's this.on...Callback?.(event), through the engine's closure
dispatch(trackerField, engineField, event) ==
  IF trackerField = Undefined THEN << >>
  ELSE IF trackerField[1] = Forwarder THEN optionalCall(engineField, event)
  ELSE optionalCall(trackerField, event)

\* the invocations made for a sequence of events of one kind
RECURSIVE dispatchAll(_, _, _)
dispatchAll(trackerField, engineField, events) ==
  IF events = << >> THEN << >>
  ELSE dispatch(trackerField, engineField, Head(events))
         \o dispatchAll(trackerField, engineField, Tail(events))

\* the history of a PoseFilter on which filter() was not called yet
FreshHist(calls, reconfigs, op) ==
  [ op |-> op, calls |-> calls, reconfigs |-> reconfigs, raw |-> Undefined,
    prev |-> Undefined, out |-> Undefined, disp |-> Undefined,
    deltas |-> << >>, lowSince |-> Undefined, bothSince |-> Undefined,
    spikeAt |-> Undefined ]

(***************************************************************************)
(* AIConnector                                                             *)
(***************************************************************************)
cacheTTL == 300000    \* 5 * 60 * 1000 ms

\* the constructor: maxRetries: config.maxRetries || 3, followed by
\* ...config, which puts back whatever the caller's config carries
AIConnectorNew(config) ==
  spread([ timeout |-> IF "timeout" \in DOMAIN config /\ config.timeout # 0
                       THEN config.timeout ELSE 5000,
           maxRetries |-> IF "maxRetries" \in DOMAIN config /\ config.maxRetries # 0
                          THEN config.maxRetries ELSE 3 ],
         config)

\* no lookup has settled yet
IdleAObs == [ op |-> "none" ]

Init ==
  /\ clock = 0
  /\ xrSession = FALSE
  /\ xrRefSpace = FALSE
  /\ hitTestSource = FALSE
  /\ endListener = FALSE
  /\ planes = << >>
  /\ poseFilter = NewPoseFilter
  /\ trackingState = NOT_TRACKING
  /\ freshCount = 0
  /\ delivered = 0
  /\ seenAt = << >>
  /\ obs = IdleObs("idle")
  /\ ended = FALSE
  /\ isInitialized = FALSE
  /\ isRunning = FALSE
  /\ xrPending = 0
  /\ fbPending = 0
  /\ stopPhase = "none"
  /\ stopped = FALSE
  /\ currentMode = FRAME
  /\ arObjects = << >>
  /\ frameObjects = << >>
  /\ neonObjects = << >>
  /\ objectCount = 0
  /\ pendingPlace = {}
  /\ issued = {}
  /\ eobs = IdleEObs
  /\ fhist = FreshHist(0, 0, "none")
  /\ trackerCallbacks = setupEventHandlers
  /\ engineCallbacks = [ onPlaneDetectedCallback |-> Undefined,
                         onTrackingStateCallback |-> Undefined ]
  /\ registered = [ planeDetected |-> << >>, trackingStateChanged |-> << >> ]
  /\ erred = FALSE
  /\ disposed = FALSE
  /\ apiConfig = AIConnectorNew(<< >>)
  /\ cache = << >>
  /\ cacheExpiry = << >>
  /\ request = Undefined
  /\ wallClock = 0
  /\ storedAt = << >>
  /\ lookups = 0
  /\ aobs = IdleAObs

\* the PlaneTracker driven directly through its public operations
Next ==
  \/ /\ \E outcome \in {"ok", "no_hit_test", "no_session", "no_ref_space"} :
          InitializeXR(outcome)
     /\ UNCHANGED << lvars, pvars, eobs, hvars >>
  \/ /\ \E frame \in XRFrames(MaxSamples - delivered), now \in Instants :
          Update(frame, now)
     /\ UNCHANGED << lvars, pvars, eobs, hvars >>
  \/ /\ OnSessionEnd
     /\ UNCHANGED << lvars, pvars, eobs, hvars >>
  \/ /\ EndOfTask
     /\ UNCHANGED << lvars, pvars, eobs, hvars >>

Spec == Init /\ [][Next]_vars

(***************************************************************************)
(* PlaneTracker.hitTest                                                    *)
(***************************************************************************)
\* what is passed as frame: an XRFrame whose getHitTestResults returns no
\* result, returns results, or throws, and whose first result's getPose
\* returns a pose, returns null, or throws
HitTestFrame(results, pose) == [ getHitTestResults |-> results, getPose |-> pose ]

HitTestFrames ==
  { HitTestFrame("empty", "null") }
    \cup { HitTestFrame("hit", p) : p \in {"pose", "null", "throws"} }
    \cup { HitTestFrame("throws", "null") }

\* the number that session.requestAnimationFrame returns: it has no methods
rafHandle == HitTestFrame("not_a_function", "not_a_function")

\* the world point of the first intersection result of a frame
HitPoint == << 0, 0, -1000 >>

Thrown == << "thrown" >>

\* the try block of hitTest: a point, null (Undefined), or an exception
hitTestTry(frame) ==
  IF frame.getHitTestResults \in {"throws", "not_a_function"} THEN Thrown
  ELSE IF frame.getHitTestResults = "hit"
  THEN IF frame.getPose = "throws" THEN Thrown
       ELSE IF frame.getPose = "pose" THEN Some(HitPoint)
       ELSE Undefined
  ELSE Undefined

\* mutant: the exception of the try block reaches the caller
hitTest_noCatch(ready, frame) ==
  IF ~ready THEN [ value |-> Undefined, raised |-> FALSE ]
  ELSE LET r == hitTestTry(frame)
       IN  IF r = Thrown THEN [ value |-> Undefined, raised |-> TRUE ]
           ELSE [ value |-> r, raised |-> FALSE ]

\* hitTest(x, y, frame), with ready = session, reference space and hit-test
\* source are all set: the value it resolves with and whether it rejects
hitTest(ready, frame) ==
  IF ~ready THEN [ value |-> Undefined, raised |-> FALSE ]
  ELSE LET r == hitTestTry(frame)
       IN  IF r = Thrown THEN [ value |-> Undefined, raised |-> FALSE ]
           ELSE [ value |-> r, raised |-> FALSE ]

HitTestReady == xrSession /\ xrRefSpace /\ hitTestSource

(***************************************************************************)
(* FramerlyAREngine: session life cycle and render loop                    *)
(***************************************************************************)
\* the frames the session delivers to the render loop, all at one instant
LoopFrames ==
  { [ detectedPlanes |-> dp, hitTestResults |-> h ] :
      dp \in { Undefined, Some(<< >>), Some(<< WallSample("p1") >>) },
      h \in {"empty", "hit"} }

\* the 'end' event of the session is queued and not yet dispatched
EndEventPending == ended /\ xrSession /\ endListener

\* what getUserMedia answers
Permissions == {"granted", "denied"}

requestCameraPermissions_rethrows(permission) ==
  [ state |-> [ granted |-> permission = "granted",
                denied |-> permission = "denied", prompt |-> FALSE ],
    raised |-> permission = "denied" ]

\* FramerlyAREngine.requestCameraPermissions: the state it resolves with;
\* a rejection of getUserMedia is caught inside it
requestCameraPermissions(permission) ==
  [ state |-> [ granted |-> permission = "granted",
                denied |-> permission = "denied", prompt |-> FALSE ],
    raised |-> FALSE ]

\* FramerlyAREngine.initialize, by what the platform answers; the platform
\* answers after an ended session has shut down, which is also what the
\* promise of its end() waits for.  The state the permission request
\* resolves with is not read.
Initialize(permission, outcome) ==
  /\ ~EndEventPending /\ stopPhase = "none"
  /\ IF requestCameraPermissions(permission).raised \/ outcome = "unsupported"
     THEN /\ NoTaskRunning
          /\ eobs' = EObs("initialize",
                          Some([ permission |-> permission, outcome |-> outcome ]),
                          TRUE, Undefined)
          /\ UNCHANGED << tvars, lvars >>
     ELSE /\ InitializeXR(outcome)
          /\ isInitialized' = (isInitialized \/ outcome \in {"ok", "no_hit_test"})
          /\ ended' = (IF outcome = "no_session" THEN ended ELSE FALSE)
          /\ xrPending' = (IF outcome = "no_session" THEN xrPending ELSE 0)
          /\ stopped' = (IF outcome = "no_session" THEN stopped ELSE FALSE)
          /\ eobs' = EObs("initialize",
                          Some([ permission |-> permission, outcome |-> outcome ]),
                          outcome \notin {"ok", "no_hit_test"}, Undefined)
          /\ UNCHANGED << isRunning, fbPending, stopPhase >>
  /\ UNCHANGED pvars

\* the body of animate in startRenderLoop: the callbacks pending after it,
\* and whether session.requestAnimationFrame threw
animate(running, xr, fb) ==
  IF ~running THEN [ xr |-> xr, fb |-> fb, threw |-> FALSE ]
  ELSE IF xrSession
  THEN IF ended THEN [ xr |-> xr, fb |-> fb, threw |-> TRUE ]
       ELSE [ xr |-> xr + 1, fb |-> fb, threw |-> FALSE ]
  ELSE [ xr |-> xr, fb |-> fb + 1, threw |-> FALSE ]

\* FramerlyAREngine.start
Start ==
  /\ NoTaskRunning
  /\ IF ~isInitialized
     THEN /\ eobs' = EObs("start", Undefined, TRUE, Undefined)
          /\ UNCHANGED lvars
     ELSE LET a == animate(TRUE, xrPending, fbPending)
          IN  /\ isRunning' = TRUE
              /\ xrPending' = a.xr
              /\ fbPending' = a.fb
              /\ eobs' = EObs("start", Undefined, a.threw, Undefined)
              /\ UNCHANGED << ended, isInitialized, stopPhase, stopped >>
  /\ UNCHANGED << tvars, pvars >>

updateRaises_noCatch(threw) == threw

\* PlaneTracker.update raises to its caller: whatever is thrown while the
\* tick runs is caught inside update
updateRaises(threw) == FALSE

\* the callback of session.requestAnimationFrame in startRenderLoop: when
\* update raises, render and animate are not reached
FrameCallback(frame) ==
  /\ xrPending > 0 /\ xrSession /\ ~ended
  /\ Update(frame, clock)
  /\ LET a == IF updateRaises(obs'.threw)
              THEN [ xr |-> xrPending - 1, fb |-> fbPending, threw |-> TRUE ]
              ELSE animate(isRunning, xrPending - 1, fbPending)
     IN  /\ xrPending' = a.xr
         /\ fbPending' = a.fb
  /\ UNCHANGED << ended, isInitialized, isRunning, stopPhase, stopped, pvars, eobs >>

\* animate as the callback of window.requestAnimationFrame
FallbackCallback ==
  /\ NoTaskRunning
  /\ fbPending > 0
  /\ LET a == animate(isRunning, xrPending, fbPending - 1)
     IN  /\ xrPending' = a.xr
         /\ fbPending' = a.fb
         /\ eobs' = EObs("animate", Undefined, a.threw, Undefined)
  /\ UNCHANGED << tvars, ended, isInitialized, isRunning, stopPhase, stopped, pvars >>

\* FramerlyAREngine.stop up to its await: isRunning is cleared and
\* PlaneTracker.endSession calls xrSession.end(), which ends the session and
\* queues its 'end' event, or rejects when the session has ended already
StopCall ==
  /\ NoTaskRunning
  /\ stopPhase = "none"
  /\ isRunning' = FALSE
  /\ IF xrSession /\ ended
     THEN /\ eobs' = EObs("stop", Undefined, TRUE, Undefined)
          /\ UNCHANGED << ended, stopPhase >>
     ELSE /\ ended' = xrSession
          /\ stopPhase' = "ending"
          /\ eobs' = EObs("stop", Undefined, FALSE, Some("pending"))
  /\ UNCHANGED << tvars, isInitialized, xrPending, fbPending, stopped, pvars >>

\* mutant: the promise of xrSession.end() resolves before the 'end' event
StopMayResolve_beforeEndEvent == stopPhase = "ending"

\* the promise of xrSession.end() resolves after the 'end' event was dispatched
StopMayResolve == stopPhase = "ending" /\ ~EndEventPending

\* FramerlyAREngine.stop after its await: the call resolves
StopResolve ==
  /\ NoTaskRunning
  /\ StopMayResolve
  /\ stopPhase' = "none"
  /\ stopped' = TRUE
  /\ eobs' = EObs("stop", Undefined, FALSE, Some("resolved"))
  /\ UNCHANGED << tvars, ended, isInitialized, isRunning, xrPending, fbPending,
                  pvars >>

\* the 'end' event of the session, ended by stop() or by the platform: the
\* callbacks pending on the session are dropped
SessionEnd ==
  /\ OnSessionEnd
  /\ ended' = FALSE
  /\ xrPending' = 0
  /\ UNCHANGED << isInitialized, isRunning, fbPending, stopPhase, stopped,
                  pvars, eobs >>

\* PlaneTracker.hitTest called with a frame
HitTestCall(frame) ==
  /\ NoTaskRunning
  /\ LET h == hitTest(HitTestReady, frame)
     IN  eobs' = EObs("hitTest", Some([ ready |-> HitTestReady, frame |-> frame ]),
                      h.raised, h.value)
  /\ UNCHANGED << tvars, lvars, pvars >>

\* a caller mutates a record of the array that getDetectedPlanes returned:
\* the array is new, its elements are the PlaneData objects of this.planes
MutateSnapshotRecord(k) ==
  /\ NoTaskRunning
  /\ k \in DOMAIN planes
  /\ planes' = [ planes EXCEPT ![k].orientation = "horizontal",
                               ![k].polygon = << >> ]
  /\ eobs' = EObs("mutateRecord", Some(k), FALSE, Undefined)
  /\ UNCHANGED << clock, xrSession, xrRefSpace, hitTestSource, endListener,
                  poseFilter, trackingState, freshCount, delivered, seenAt, obs,
                  lvars, pvars >>

\* a caller empties the array that getDetectedPlanes returned
MutateSnapshotSequence ==
  /\ NoTaskRunning
  /\ planes # << >>
  /\ eobs' = EObs("mutateSequence", Undefined, FALSE, Undefined)
  /\ UNCHANGED << tvars, lvars, pvars >>

(***************************************************************************)
(* FramerlyAREngine: placement                                             *)
(***************************************************************************)
Anchors == { << 0, 0, 0 >>, HitPoint }

\* mutant: the identifier without its time and random parts
ObjectId_modeOnly(mode, n) == mode

\* `${currentMode}_${Date.now()}_${random}`: the n-th identifier generated,
\* whose time and random parts were never produced before
ObjectId(mode, n) == mode \o "_" \o ToString(n)

\* this.arObjects.set(id, data), and the renderer's maps likewise
mapSet(m, id, data) ==
  [ k \in DOMAIN m \cup {id} |-> IF k = id THEN data ELSE m[k] ]

\* mutant: every entry is deleted
mapDelete_all(m, id) == << >>

\* this.arObjects.delete(id)
mapDelete(m, id) == [ k \in DOMAIN m \ {id} |-> m[k] ]

\* mutant: an absent id yields an empty object instead of undefined
mapGet_orEmpty(m, id) ==
  IF id \in DOMAIN m THEN Some(m[id])
  ELSE Some([ id |-> id, type |-> FRAME, position |-> << 0, 0, 0 >>,
              style |-> "default" ])

\* this.arObjects.get(id)
mapGet(m, id) == IF id \in DOMAIN m THEN Some(m[id]) ELSE Undefined

\* placeObject up to the await in createFrameData / createNeonData: the id
\* and the branch are fixed; mode is the mode at the call (history)
placeObjectEntry(position) ==
  [ id |-> ObjectId(currentMode, objectCount + 1),
    branch |-> IF currentMode = FRAME THEN FRAME ELSE NEON,
    position |-> position,
    mode |-> currentMode ]

\* mutant: the type is read from the mode when the recommendation arrives
placedType_atResume(p, modeNow) == modeNow

\* the type field that createFrameData / createNeonData writes
placedType(p, modeNow) == p.branch

\* FramerlyAREngine.placeObject up to its await
PlaceObjectCall(position) ==
  /\ NoTaskRunning
  /\ objectCount < MaxObjects
  /\ LET p == placeObjectEntry(position)
     IN  /\ pendingPlace' = pendingPlace \cup {p}
         /\ issued' = issued \cup {p.id}
         /\ eobs' = EObs("placeObject", Some(p), FALSE, Some("pending"))
  /\ objectCount' = objectCount + 1
  /\ UNCHANGED << tvars, lvars, currentMode, arObjects, frameObjects, neonObjects >>

\* FramerlyAREngine.placeObject after its await: the recommendation (or
\* the default styling) has arrived, the object is stored and rendered, and
\* the call resolves with the id
PlaceObjectResume(p, style) ==
  /\ NoTaskRunning
  /\ p \in pendingPlace
  /\ LET type == placedType(p, currentMode)
         data == [ id |-> p.id, type |-> type, position |-> p.position,
                   style |-> style ]
     IN  /\ arObjects' = mapSet(arObjects, p.id, data)
         /\ IF p.branch = FRAME
            THEN /\ frameObjects' = mapSet(frameObjects, p.id, p.position)
                 /\ UNCHANGED neonObjects
            ELSE /\ neonObjects' = mapSet(neonObjects, p.id, p.position)
                 /\ UNCHANGED frameObjects
  /\ pendingPlace' = pendingPlace \ {p}
  /\ eobs' = EObs("placeObject", Some(p), FALSE, Some(p.id))
  /\ UNCHANGED << tvars, lvars, currentMode, objectCount, issued >>

SetMode_ignored(mode) ==
  /\ NoTaskRunning
  /\ eobs' = EObs("setMode", Some(mode), FALSE, Undefined)
  /\ UNCHANGED << tvars, lvars, pvars >>

\* FramerlyAREngine.getMode
getMode == currentMode

\* FramerlyAREngine.setMode
SetMode(mode) ==
  /\ NoTaskRunning
  /\ currentMode' = mode
  /\ eobs' = EObs("setMode", Some(mode), FALSE, Undefined)
  /\ UNCHANGED << tvars, lvars, arObjects, frameObjects, neonObjects,
                  objectCount, pendingPlace, issued >>

NotFound == "NotFound"

\* the ids a caller passes: every id generated so far and one never generated
KnownIds == issued \cup {"unknown"}

\* the partial objects a caller passes to updateObject
ObjectUpdates ==
  { << >>, [ style |-> "custom" ], [ position |-> HitPoint, style |-> "custom" ] }
    \cup { [ position |-> position ] : position \in Anchors }

\* Renderer.updateFrame / updateNeon on one of the renderer's maps
rendererUpdate(m, data) ==
  IF data.id \in DOMAIN m THEN [ m EXCEPT ![data.id] = data.position ] ELSE m

\* FramerlyAREngine.updateObject
UpdateObject(objectId, updates) ==
  /\ NoTaskRunning
  /\ IF mapGet(arObjects, objectId) = Undefined
     THEN /\ eobs' = EObs("updateObject", Some(objectId), TRUE, Some(NotFound))
          /\ UNCHANGED << arObjects, frameObjects, neonObjects >>
     ELSE LET object == mapGet(arObjects, objectId)[1]
              updatedObject == spread(object, updates)
          IN  /\ arObjects' = mapSet(arObjects, objectId, updatedObject)
              /\ IF object.type = FRAME
                 THEN /\ frameObjects' = rendererUpdate(frameObjects, updatedObject)
                      /\ UNCHANGED neonObjects
                 ELSE /\ neonObjects' = rendererUpdate(neonObjects, updatedObject)
                      /\ UNCHANGED frameObjects
              /\ eobs' = EObs("updateObject", Some(objectId), FALSE,
                              Some([ updates |-> updates,
                                     rendered |-> updatedObject ]))
  /\ UNCHANGED << tvars, lvars, currentMode, objectCount, pendingPlace, issued >>

\* FramerlyAREngine.removeObject
RemoveObject(objectId) ==
  /\ NoTaskRunning
  /\ IF mapGet(arObjects, objectId) # Undefined
     THEN LET object == mapGet(arObjects, objectId)[1]
          IN  /\ IF object.type = FRAME
                 THEN /\ frameObjects' = mapDelete(frameObjects, objectId)
                      /\ UNCHANGED neonObjects
                 ELSE /\ neonObjects' = mapDelete(neonObjects, objectId)
                      /\ UNCHANGED frameObjects
              /\ arObjects' = mapDelete(arObjects, objectId)
              /\ eobs' = EObs("removeObject", Some(objectId), FALSE, Some("removed"))
     ELSE /\ eobs' = EObs("removeObject", Some(objectId), FALSE, Some("absent"))
          /\ UNCHANGED << arObjects, frameObjects, neonObjects >>
  /\ UNCHANGED << tvars, lvars, currentMode, objectCount, pendingPlace, issued >>

\* FramerlyAREngine.dispose: stop() is called and not awaited, the renderer
\* drops its groups and the map is cleared; a placeObject that is awaiting
\* its recommendation is left as it is
Dispose ==
  /\ NoTaskRunning
  /\ stopPhase = "none"
  /\ isRunning' = FALSE
  /\ IF xrSession /\ ended
     THEN UNCHANGED << ended, stopPhase >>
     ELSE /\ ended' = xrSession
          /\ stopPhase' = "ending"
  /\ frameObjects' = << >>
  /\ neonObjects' = << >>
  /\ arObjects' = << >>
  /\ eobs' = EObs("dispose", Undefined, FALSE, Undefined)
  /\ UNCHANGED << tvars, isInitialized, xrPending, fbPending, stopped,
                  currentMode, objectCount, pendingPlace, issued >>

handleTapHit_noCatch(session, sessionEnded, ready) ==
  IF ~session THEN [ value |-> Undefined, raised |-> FALSE ]
  ELSE IF sessionEnded THEN [ value |-> Undefined, raised |-> TRUE ]
  ELSE hitTest(ready, rafHandle)

\* the hit position handleTap obtains: none without a session; inside its
\* try block, requestAnimationFrame throws on a session that has ended, and
\* its return value is what hitTest gets as the frame
handleTapHit(session, sessionEnded, ready) ==
  IF ~session THEN [ value |-> Undefined, raised |-> FALSE ]
  ELSE IF sessionEnded THEN [ value |-> Undefined, raised |-> FALSE ]
  ELSE hitTest(ready, rafHandle)

\* FramerlyAREngine.handleTap while tick is the frame of the current tick
HandleTap(tick) ==
  /\ NoTaskRunning
  /\ LET arg == Some([ ready |-> HitTestReady /\ ~ended, frame |-> tick,
                       session |-> xrSession, ended |-> ended,
                       state |-> getTrackingState ])
         h == handleTapHit(xrSession, ended, HitTestReady)
     IN  IF h.value # Undefined /\ ~h.raised
         THEN LET p == placeObjectEntry(h.value[1])
              IN  /\ objectCount < MaxObjects
                  /\ pendingPlace' = pendingPlace \cup {p}
                  /\ issued' = issued \cup {p.id}
                  /\ objectCount' = objectCount + 1
                  /\ eobs' = EObs("handleTap", arg, FALSE, Some(p.id))
         ELSE /\ eobs' = EObs("handleTap", arg, h.raised, Undefined)
              /\ UNCHANGED << pendingPlace, issued, objectCount >>
  /\ UNCHANGED << tvars, lvars, currentMode, arObjects, frameObjects, neonObjects >>

\* the engine over its tracker: sessions, the render loop, taps, accessors
EngineNext ==
  \/ /\ \E permission \in Permissions,
           outcome \in {"unsupported", "ok", "no_hit_test", "no_session",
                        "no_ref_space"} : Initialize(permission, outcome)
     /\ UNCHANGED hvars
  \/ /\ xrPending + fbPending < MaxLoops
     /\ Start
     /\ UNCHANGED hvars
  \/ /\ \E frame \in LoopFrames : FrameCallback(frame)
     /\ UNCHANGED hvars
  \/ /\ FallbackCallback
     /\ UNCHANGED hvars
  \/ /\ StopCall
     /\ UNCHANGED hvars
  \/ /\ StopResolve
     /\ UNCHANGED hvars
  \/ /\ SessionEnd
     /\ UNCHANGED hvars
  \/ /\ \E frame \in HitTestFrames \cup {rafHandle} : HitTestCall(frame)
     /\ UNCHANGED hvars
  \/ /\ \E tick \in HitTestFrames : HandleTap(tick)
     /\ UNCHANGED hvars
  \/ /\ \E k \in PlaneIds : MutateSnapshotRecord(k)
     /\ UNCHANGED hvars
  \/ /\ MutateSnapshotSequence
     /\ UNCHANGED hvars
  \/ /\ EndOfTask
     /\ UNCHANGED << lvars, pvars, eobs, hvars >>

EngineSpec == Init /\ [][EngineNext]_vars

\* the placement operations of the engine
PlacementNext ==
  \/ /\ \E position \in Anchors : PlaceObjectCall(position)
     /\ UNCHANGED hvars
  \/ /\ \E p \in pendingPlace, style \in {"recommended", "default"} :
          PlaceObjectResume(p, style)
     /\ UNCHANGED hvars
  \/ /\ \E mode \in ARModes : SetMode(mode)
     /\ UNCHANGED hvars
  \/ /\ \E objectId \in KnownIds, updates \in ObjectUpdates :
          UpdateObject(objectId, updates)
     /\ UNCHANGED hvars
  \/ /\ \E objectId \in KnownIds : RemoveObject(objectId)
     /\ UNCHANGED hvars

PlacementSpec == Init /\ [][PlacementNext]_vars

\* partial objects that carry the fields of ARObject a caller may also pass
\* to updateObject: Partial<FrameData | NeonData> admits type and id
FieldUpdates ==
  { [ position |-> HitPoint ] }
    \cup { [ type |-> type ] : type \in ARModes }
    \cup { [ id |-> id ] : id \in KnownIds }

\* the placement operations with updates of any field
MirrorNext ==
  \/ /\ PlaceObjectCall(HitPoint)
     /\ UNCHANGED hvars
  \/ /\ \E p \in pendingPlace : PlaceObjectResume(p, "default")
     /\ UNCHANGED hvars
  \/ /\ \E mode \in ARModes : SetMode(mode)
     /\ UNCHANGED hvars
  \/ /\ \E objectId \in KnownIds, updates \in FieldUpdates :
          UpdateObject(objectId, updates)
     /\ UNCHANGED hvars
  \/ /\ \E objectId \in KnownIds : RemoveObject(objectId)
     /\ UNCHANGED hvars

MirrorSpec == Init /\ [][MirrorNext]_vars

\* the render loop under repeated start() and stop(), as pauseAR and
\* resumeAR of main.ts and any other caller may issue them
ChainNext ==
  \/ /\ Initialize("granted", "ok")
     /\ UNCHANGED hvars
  \/ /\ xrPending + fbPending < MaxChains
     /\ Start
     /\ UNCHANGED hvars
  \/ /\ \E frame \in LoopFrames : FrameCallback(frame)
     /\ UNCHANGED hvars
  \/ /\ FallbackCallback
     /\ UNCHANGED hvars
  \/ /\ StopCall
     /\ UNCHANGED hvars
  \/ /\ StopResolve
     /\ UNCHANGED hvars
  \/ /\ SessionEnd
     /\ UNCHANGED hvars
  \/ /\ EndOfTask
     /\ UNCHANGED << lvars, pvars, eobs, hvars >>

ChainSpec == Init /\ [][ChainNext]_vars

\* the engine up to and after its disposal: placements are started before
\* dispose() and may complete after it
DisposeNext ==
  \/ /\ ~disposed
     /\ \E position \in Anchors : PlaceObjectCall(position)
     /\ UNCHANGED hvars
  \/ /\ \E p \in pendingPlace, style \in {"recommended", "default"} :
          PlaceObjectResume(p, style)
     /\ UNCHANGED hvars
  \/ /\ \E mode \in ARModes : SetMode(mode)
     /\ UNCHANGED hvars
  \/ /\ \E objectId \in KnownIds : RemoveObject(objectId)
     /\ UNCHANGED hvars
  \/ /\ Dispose
     /\ disposed' = TRUE
     /\ UNCHANGED << fhist, cvars, erred, avars >>
  \/ /\ StopResolve
     /\ UNCHANGED hvars

DisposeSpec == Init /\ [][DisposeNext]_vars

\* String.prototype.includes on the contexts passed here, each of which is
\* one word that contains none of the other words
includes(context, word) == context = word

\* `frame_${artworkUrl}_${roomContext || 'default'}`
FrameCacheKey(artworkUrl, roomContext) ==
  << "frame", artworkUrl,
     IF roomContext = Undefined THEN "default" ELSE roomContext[1] >>

\* `neon_${context}_${roomType || 'default'}_${moodPreference || 'default'}`
NeonCacheKey(context, roomType, moodPreference) ==
  << "neon", context,
     IF roomType = Undefined THEN "default" ELSE roomType[1],
     IF moodPreference = Undefined THEN "default" ELSE moodPreference[1] >>

\* mutant: an entry that was stored once is valid for ever
isCacheValid_noExpiry(key, now) == key \in DOMAIN cacheExpiry

\* AIConnector.isCacheValid at time now
isCacheValid(key, now) == key \in DOMAIN cacheExpiry /\ now < cacheExpiry[key]

\* AIConnector.getFallbackFrameRecommendations
getFallbackFrameRecommendations ==
  << [ frameStyle |-> "modern", frameColor |-> "#000000" ],
     [ frameStyle |-> "minimal", frameColor |-> "#8B4513" ],
     [ frameStyle |-> "classic", frameColor |-> "#FFD700" ] >>

\* AIConnector.getFallbackNeonRecommendations
getFallbackNeonRecommendations(context) ==
  LET first == IF includes(context, "cafe") \/ includes(context, "coffee")
               THEN [ text |-> "Coffee", color |-> "#D2691E" ]
               ELSE IF includes(context, "bar") \/ includes(context, "restaurant")
               THEN [ text |-> "Cheers", color |-> "#DC143C" ]
               ELSE [ text |-> "Welcome", color |-> "#00FFFF" ]
  IN  << first,
         [ text |-> "Dreams", color |-> "#FF1493" ],
         [ text |-> "Relax", color |-> "#9370DB" ] >>

\* the lookups issued: the one of createFrameData, and one of a caller of
\* getNeonRecommendations
Lookups ==
  { [ kind |-> FRAME, context |-> "artwork",
      key |-> FrameCacheKey("artwork", Undefined) ] }
    \cup { [ kind |-> NEON, context |-> context,
             key |-> NeonCacheKey(context, Undefined, Undefined) ] :
           context \in {"cafe"} }

\* the lists the service answers with; confidence in tenths, 0 when absent
ServiceLists(kind) ==
  IF kind = FRAME
  THEN { << >>,
         << [ frame_style |-> "ornate", frame_color |-> "#111111",
              confidence |-> 0 ] >> }
  ELSE { << [ text |-> "Open", color |-> "#FF0000", confidence |-> 9 ] >> }

\* what one fetch attempt comes to: a response with status ok whose body
\* parses (with or without a list), or an error: "Error" for a status that
\* is not ok, an abort or a body that does not parse, "TypeError" for a
\* network failure, "TypeError4" for one whose message contains a '4'
FetchOutcomes(kind) ==
  { [ ok |-> TRUE, body |-> [ recommendations |-> list ] ] :
      list \in ServiceLists(kind) }
    \cup { [ ok |-> TRUE, body |-> [ message |-> "maintenance" ] ] }
    \cup { [ ok |-> FALSE, error |-> error ] :
             error \in {"Error", "TypeError", "TypeError4"} }

\* the element mapping of response.recommendations.map
mapRecommendation(kind, rec) ==
  IF kind = FRAME
  THEN [ frameStyle |-> rec.frame_style, frameColor |-> rec.frame_color ]
  ELSE [ text |-> rec.text, color |-> rec.color ]

\* the AIRecommendation stored for the element at index
toAIRecommendation(kind, rec, data, now, index) ==
  [ id |-> << kind, now, index >>, type |-> kind,
    confidence |-> IF rec.confidence = 0 THEN 8 ELSE rec.confidence,
    data |-> data ]

\* what makeRequest did when no request was made
NoRequest ==
  [ outcome |-> "none", value |-> Undefined, fetches |-> 0, waits |-> << >>,
    errors |-> << >> ]

\* getFrameRecommendations / getNeonRecommendations after makeRequest has
\* settled: the list is mapped, stored and returned, or the catch block
\* returns the fallback list
settle(r, made, now) ==
  IF made.outcome = "returned" /\ "recommendations" \in DOMAIN made.value
  THEN LET list == made.value.recommendations
           recommendations ==
             [ i \in 1..Len(list) |-> mapRecommendation(r.kind, list[i]) ]
           aiRecommendations ==
             [ i \in 1..Len(list) |->
                 toAIRecommendation(r.kind, list[i], recommendations[i], now, i - 1) ]
       IN  [ served |-> "service", result |-> recommendations, rejected |-> FALSE,
             cache |-> mapSet(cache, r.key, aiRecommendations),
             cacheExpiry |-> mapSet(cacheExpiry, r.key, now + cacheTTL) ]
  ELSE [ served |-> "fallback",
         result |-> IF r.kind = FRAME THEN getFallbackFrameRecommendations
                    ELSE getFallbackNeonRecommendations(r.context),
         rejected |-> FALSE, cache |-> cache, cacheExpiry |-> cacheExpiry ]

\* the lookup r resolves after makeRequest did made
Finish(r, made) ==
  LET s == settle(r, made, wallClock)
  IN  /\ cache' = s.cache
      /\ cacheExpiry' = s.cacheExpiry
      /\ storedAt' = IF s.served = "service"
                     THEN mapSet(storedAt, r.key, wallClock) ELSE storedAt
      /\ request' = Undefined
      /\ aobs' = [ op |-> r.kind, key |-> r.key, context |-> r.context,
                   at |-> r.at, served |-> s.served, result |-> s.result,
                   rejected |-> s.rejected, maxRetries |-> apiConfig.maxRetries,
                   made |-> made ]

\* new AIConnector(config)
Construct(config) ==
  /\ request = Undefined
  /\ apiConfig' = AIConnectorNew(config)
  /\ cache' = << >>
  /\ cacheExpiry' = << >>
  /\ storedAt' = << >>
  /\ UNCHANGED << request, wallClock, lookups, aobs >>

\* getFrameRecommendations / getNeonRecommendations up to the first await:
\* a valid cache entry is returned, else makeRequest enters its loop and
\* issues the first fetch, or falls out of the loop at once and throws
\* lastError, which was never assigned
GetRecommendations(call) ==
  /\ request = Undefined
  /\ lookups < MaxLookups
  /\ lookups' = lookups + 1
  /\ LET r == [ kind |-> call.kind, key |-> call.key, context |-> call.context,
                at |-> wallClock, attempt |-> 0, fetches |-> 1, waits |-> << >>,
                errors |-> << >>, phase |-> "fetch" ]
     IN  IF isCacheValid(call.key, wallClock)
         THEN /\ aobs' = [ op |-> r.kind, key |-> r.key, context |-> r.context,
                           at |-> r.at, served |-> "cache",
                           result |-> [ i \in 1..Len(cache[r.key]) |->
                                          cache[r.key][i].data ],
                           rejected |-> FALSE,
                           maxRetries |-> apiConfig.maxRetries,
                           made |-> NoRequest ]
              /\ UNCHANGED << cache, cacheExpiry, storedAt, request >>
         ELSE IF 0 < apiConfig.maxRetries
         THEN /\ request' = Some(r)
              /\ UNCHANGED << cache, cacheExpiry, storedAt, aobs >>
         ELSE Finish(r, [ NoRequest EXCEPT !.outcome = "threw" ])
  /\ UNCHANGED << apiConfig, wallClock >>

\* one fetch of makeRequest settles: a response that is ok is returned; an
\* error is kept as lastError and is thrown at once when it is a TypeError
\* with a '4' in its message or when this was the last attempt, else the
\* delay of 2^attempt seconds starts
Fetch(outcome) ==
  /\ request # Undefined
  /\ request[1].phase = "fetch"
  /\ LET r == request[1]
         made == [ outcome |-> "none", value |-> Undefined, fetches |-> r.fetches,
                   waits |-> r.waits, errors |-> r.errors ]
     IN  IF outcome.ok
         THEN Finish(r, [ made EXCEPT !.outcome = "returned",
                                      !.value = outcome.body ])
         ELSE LET error == [ type |-> outcome.error, attempt |-> r.attempt ]
                  errors == Append(r.errors, error)
              IN  IF outcome.error = "TypeError4"
                     \/ ~(r.attempt < apiConfig.maxRetries - 1)
                  THEN Finish(r, [ made EXCEPT !.outcome = "threw",
                                               !.value = error,
                                               !.errors = errors ])
                  ELSE /\ request' =
                            Some([ r EXCEPT !.phase = "delay", !.errors = errors,
                                            !.waits = Append(@, (2 ^ r.attempt) * 1000) ])
                       /\ UNCHANGED << cache, cacheExpiry, storedAt, aobs >>
  /\ UNCHANGED << apiConfig, wallClock, lookups >>

\* the delay of makeRequest is over: the loop goes on with the next fetch
DelayElapsed ==
  /\ request # Undefined
  /\ request[1].phase = "delay"
  /\ LET r == request[1]
         ms == r.waits[Len(r.waits)]
     IN  /\ wallClock + ms <= MaxWallClock
         /\ wallClock' = wallClock + ms
         /\ request' = Some([ r EXCEPT !.phase = "fetch", !.attempt = @ + 1,
                                       !.fetches = @ + 1 ])
  /\ UNCHANGED << apiConfig, cache, cacheExpiry, storedAt, lookups, aobs >>

\* time passes
Elapse(ms) ==
  /\ wallClock + ms <= MaxWallClock
  /\ wallClock' = wallClock + ms
  /\ UNCHANGED << apiConfig, cache, cacheExpiry, request, storedAt, lookups, aobs >>

\* the configurations a connector is made with
APIConfigs ==
  { [ timeout |-> 5000 ], [ maxRetries |-> 0 ], [ maxRetries |-> 1 ],
    [ maxRetries |-> 2 ] }

\* the AIConnector on its own
ConnectorNext ==
  \/ /\ \E config \in APIConfigs : Construct(config)
     /\ UNCHANGED << tvars, lvars, pvars, eobs, fhist, cvars, evars >>
  \/ /\ \E call \in Lookups : GetRecommendations(call)
     /\ UNCHANGED << tvars, lvars, pvars, eobs, fhist, cvars, evars >>
  \/ /\ request # Undefined
     /\ \E outcome \in FetchOutcomes(request[1].kind) : Fetch(outcome)
     /\ UNCHANGED << tvars, lvars, pvars, eobs, fhist, cvars, evars >>
  \/ /\ DelayElapsed
     /\ UNCHANGED << tvars, lvars, pvars, eobs, fhist, cvars, evars >>
  \/ /\ \E ms \in {100000, 200000} : Elapse(ms)
     /\ UNCHANGED << tvars, lvars, pvars, eobs, fhist, cvars, evars >>

ConnectorSpec == Init /\ [][ConnectorNext]_vars

\* what a degraded tracking subsystem delivers to the render loop
DegradedFrames ==
  LoopFrames \cup
    { [ detectedPlanes |-> Some(<< ThrowSample >>), hitTestResults |-> "empty" ],
      [ detectedPlanes |-> Some(<< NullSample >>), hitTestResults |-> "empty" ],
      [ detectedPlanes |-> Undefined, hitTestResults |-> "throws" ] }

\* the render loop over a tracking subsystem that fails
LoopNext ==
  \/ /\ \E outcome \in {"ok", "no_hit_test"} : Initialize("granted", outcome)
     /\ UNCHANGED hvars
  \/ /\ xrPending + fbPending < MaxLoops
     /\ Start
     /\ UNCHANGED hvars
  \/ /\ \E frame \in DegradedFrames : FrameCallback(frame)
     /\ erred' = (erred \/ obs'.threw)
     /\ UNCHANGED << fhist, cvars, disposed, avars >>
  \/ /\ StopCall
     /\ UNCHANGED hvars
  \/ /\ StopResolve
     /\ UNCHANGED hvars
  \/ /\ SessionEnd
     /\ UNCHANGED hvars
  \/ /\ EndOfTask
     /\ UNCHANGED << lvars, pvars, eobs, hvars >>

LoopSpec == Init /\ [][LoopNext]_vars

\* the engine with its mode switch: one session, one frame per tick, and the
\* placement operations with one input each
ModeNext ==
  \/ /\ \E mode \in ARModes : SetMode(mode)
     /\ UNCHANGED hvars
  \/ /\ Initialize("granted", "ok")
     /\ UNCHANGED hvars
  \/ /\ xrPending + fbPending < MaxLoops
     /\ Start
     /\ UNCHANGED hvars
  \/ /\ FrameCallback([ detectedPlanes |-> Some(<< >>),
                        hitTestResults |-> "hit" ])
     /\ UNCHANGED hvars
  \/ /\ StopCall
     /\ UNCHANGED hvars
  \/ /\ StopResolve
     /\ UNCHANGED hvars
  \/ /\ SessionEnd
     /\ UNCHANGED hvars
  \/ /\ HandleTap(HitTestFrame("hit", "pose"))
     /\ UNCHANGED hvars
  \/ /\ PlaceObjectCall(HitPoint)
     /\ UNCHANGED hvars
  \/ /\ \E p \in pendingPlace : PlaceObjectResume(p, "default")
     /\ UNCHANGED hvars
  \/ /\ \E objectId \in KnownIds :
          UpdateObject(objectId, [ position |-> HitPoint ])
     /\ UNCHANGED hvars
  \/ /\ \E objectId \in KnownIds : RemoveObject(objectId)
     /\ UNCHANGED hvars
  \/ /\ EndOfTask
     /\ UNCHANGED << lvars, pvars, eobs, hvars >>

ModeSpec == Init /\ [][ModeNext]_vars

\* the callbacks a user of the engine registers
Callbacks == {"a", "b"}

NumRegistered == Len(registered.planeDetected) + Len(registered.trackingStateChanged)

\* FramerlyAREngine.onTrackingStateChanged
OnTrackingStateChanged(callback) ==
  /\ NoTaskRunning
  /\ NumRegistered < MaxRegistrations
  /\ engineCallbacks' =
       [ engineCallbacks EXCEPT !.onTrackingStateCallback = register(@, callback) ]
  /\ registered' = [ registered EXCEPT !.trackingStateChanged = Append(@, callback) ]
  /\ UNCHANGED << tvars, lvars, pvars, eobs, fhist, trackerCallbacks, evars, avars >>

\* FramerlyAREngine.onPlaneDetected
OnPlaneDetected(callback) ==
  /\ NoTaskRunning
  /\ NumRegistered < MaxRegistrations
  /\ engineCallbacks' =
       [ engineCallbacks EXCEPT !.onPlaneDetectedCallback = register(@, callback) ]
  /\ registered' = [ registered EXCEPT !.planeDetected = Append(@, callback) ]
  /\ UNCHANGED << tvars, lvars, pvars, eobs, fhist, trackerCallbacks, evars, avars >>

\* the callbacks invoked by the handler that runs, in order, per event kind
InvokedTrackingStateChanged ==
  dispatchAll(trackerCallbacks.onTrackingStateChangedCallback,
              engineCallbacks.onTrackingStateCallback, obs.notes)

InvokedPlaneDetected ==
  dispatchAll(trackerCallbacks.onPlaneDetectedCallback,
              engineCallbacks.onPlaneDetectedCallback, obs.detected)

\* the engine with its event subscriptions: one session after another, the
\* frames of the render loop, and registrations between the handlers
EventNext ==
  \/ \E callback \in Callbacks : OnTrackingStateChanged(callback)
  \/ \E callback \in Callbacks : OnPlaneDetected(callback)
  \/ /\ Initialize("granted", "ok")
     /\ UNCHANGED hvars
  \/ /\ xrPending + fbPending < MaxLoops
     /\ Start
     /\ UNCHANGED hvars
  \/ /\ \E frame \in LoopFrames : FrameCallback(frame)
     /\ UNCHANGED hvars
  \/ /\ StopCall
     /\ UNCHANGED hvars
  \/ /\ StopResolve
     /\ UNCHANGED hvars
  \/ /\ SessionEnd
     /\ UNCHANGED hvars
  \/ /\ EndOfTask
     /\ UNCHANGED << lvars, pvars, eobs, hvars >>

EventSpec == Init /\ [][EventNext]_vars

\* the configurations an engine is constructed with (the surface cap only)
EngineConfigs == { << >>, [ maxPlanes |-> 1 ] }

\* FramerlyAREngine.config after the constructor: the defaults overridden by
\* the caller's fields.  The PlaneTracker is constructed without arguments
\* and no operation of the engine or of the tracker reads the cap.
AREngineConfig(config) == spread([ maxPlanes |-> maxPlanes ], config)

(***************************************************************************)
(* A PoseFilter driven directly: construction, filter, reset,              *)
(* updateOptions                                                           *)
(***************************************************************************)
\* raw poses handed to filter()
FilterSamples ==
  { [ position |-> << 0, 0, 0 >>, rotation |-> 0 ],
    [ position |-> << 10, 0, 0 >>, rotation |-> 0 ],
    [ position |-> << 200, 0, 0 >>, rotation |-> 0 ],
    [ position |-> << 1000, 0, 0 >>, rotation |-> 900 ] }

\* time between two calls, in ms
FilterSteps == {500, 1000}

\* options handed to the constructor and to updateOptions
FilterOptions ==
  { [ positionSmoothingFactor |-> 5 ], [ positionSmoothingFactor |-> 15 ] }

\* the last n elements of s
LastN(s, n) == IF Len(s) <= n THEN s ELSE SubSeq(s, Len(s) - n + 1, Len(s))

FilterCall(sample, now) ==
  /\ LET r == filter(poseFilter, sample.position, sample.rotation, now)
         first == fhist.out = Undefined
         d == IF first THEN 0
              ELSE distanceTo(sample.position, fhist.out[1].position)
         deltas == IF first THEN << >> ELSE Append(fhist.deltas, d)
         recent == LastN(deltas, VelocityHistoryLen)
         low == d < poseFilter.options.maxJitterThreshold
         lowMean == SumSeq(recent)
                      < poseFilter.options.maxJitterThreshold * Len(recent)
         since(old, cond) ==
           IF first THEN Some(now)
           ELSE IF ~cond THEN Undefined
           ELSE IF old = Undefined THEN Some(now) ELSE old
     IN  /\ poseFilter' = r.f
         /\ fhist' =
              [ op |-> "filter",
                calls |-> fhist.calls + 1,
                reconfigs |-> fhist.reconfigs,
                raw |-> Some(sample),
                prev |-> fhist.out,
                out |-> Some([ position |-> r.position,
                               rotation |-> r.rotation,
                               isStable |-> r.isStable ]),
                disp |-> IF first THEN Undefined ELSE Some(d),
                deltas |-> deltas,
                lowSince |-> since(fhist.lowSince, low),
                bothSince |-> since(fhist.bothSince, low /\ lowMean),
                spikeAt |-> IF first THEN Undefined
                            ELSE IF ~low THEN Some(now) ELSE fhist.spikeAt ]
  /\ clock' = now
  /\ UNCHANGED << xrSession, xrRefSpace, hitTestSource, endListener, planes,
                  trackingState, freshCount, delivered, seenAt, obs >>
  /\ UNCHANGED << lvars, pvars, eobs, cvars, evars, avars >>

FilterReset ==
  /\ poseFilter' = reset(poseFilter)
  /\ fhist' = FreshHist(fhist.calls, fhist.reconfigs, "reset")
  /\ UNCHANGED << clock, xrSession, xrRefSpace, hitTestSource, endListener,
                  planes, trackingState, freshCount, delivered, seenAt, obs >>
  /\ UNCHANGED << lvars, pvars, eobs, cvars, evars, avars >>

FilterUpdateOptions(options) ==
  /\ fhist.reconfigs < MaxReconfig
  /\ poseFilter' = updateOptions(poseFilter, options)
  /\ fhist' = [ fhist EXCEPT !.op = "updateOptions", !.reconfigs = @ + 1 ]
  /\ UNCHANGED << clock, xrSession, xrRefSpace, hitTestSource, endListener,
                  planes, trackingState, freshCount, delivered, seenAt, obs >>
  /\ UNCHANGED << lvars, pvars, eobs, cvars, evars, avars >>

FilterConstruct(options) ==
  /\ fhist.reconfigs < MaxReconfig
  /\ poseFilter' = PoseFilterNew(options)
  /\ fhist' = FreshHist(fhist.calls, fhist.reconfigs + 1, "construct")
  /\ UNCHANGED << clock, xrSession, xrRefSpace, hitTestSource, endListener,
                  planes, trackingState, freshCount, delivered, seenAt, obs >>
  /\ UNCHANGED << lvars, pvars, eobs, cvars, evars, avars >>

\* a PoseFilter with the default options
FilterNext ==
  \/ \E sample \in FilterSamples, step \in FilterSteps :
       /\ fhist.calls < MaxCalls
       /\ FilterCall(sample, clock + step)
  \/ FilterReset

FilterSpec == Init /\ [][FilterNext]_vars

\* raw poses of a long run of calls, one call every HistoryStep ms
HistorySamples ==
  { [ position |-> << 0, 0, 0 >>, rotation |-> 0 ],
    [ position |-> << 1000, 0, 0 >>, rotation |-> 0 ] }

HistoryStep == 500

\* a PoseFilter called often enough to fill its displacement history
HistoryNext ==
  \/ \E sample \in HistorySamples :
       /\ fhist.calls < MaxHistoryCalls
       /\ FilterCall(sample, clock + HistoryStep)
  \/ FilterReset

HistorySpec == Init /\ [][HistoryNext]_vars

\* a PoseFilter whose options are chosen by its user
ConfigNext ==
  \/ \E sample \in FilterSamples, step \in FilterSteps :
       /\ fhist.calls < MaxConfiguredCalls
       /\ FilterCall(sample, clock + step)
  \/ \E options \in FilterOptions : FilterUpdateOptions(options)
  \/ \E options \in FilterOptions : FilterConstruct(options)
  \/ FilterReset

ConfigSpec == Init /\ [][ConfigNext]_vars

(***************************************************************************)
(* Properties                                                              *)
(***************************************************************************)
Last(s) == s[Len(s)]

\* s without consecutive repetitions
RECURSIVE Compress(_)
Compress(s) ==
  IF Len(s) <= 1 THEN s
  ELSE IF s[1] = s[2] THEN Compress(Tail(s))
  ELSE << s[1] >> \o Compress(Tail(s))

\* the tracking state the specification derives from the surfaces at time now
DerivedState(ps, now) ==
  LET active == { k \in DOMAIN ps : now - ps[k].lastUpdate < 5000 }
  IN  IF active = {} THEN NOT_TRACKING
      ELSE IF \E k \in active : ps[k].orientation = "vertical" THEN TRACKING
      ELSE LIMITED

\* the ids of ids that are not in known, each at its first occurrence
RECURSIVE FirstNew(_, _)
FirstNew(ids, known) ==
  IF ids = << >> THEN << >>
  ELSE IF Head(ids) \in known THEN FirstNew(Tail(ids), known)
  ELSE << Head(ids) >> \o FirstNew(Tail(ids), known \cup {Head(ids)})

Tick == obs.op = "update" /\ obs.ran

\* C1: over every operation, the notified values are exactly the distinct
\* consecutive values the tracking state goes through, and no notification
\* is dispatched for a call that leaves the held value as it was.
C1_NotifiedOncePerChange ==
  [][ /\ obs'.notes = Tail(Compress(<< trackingState >> \o obs'.held))
      /\ trackingState' = Last(<< trackingState >> \o obs'.held) ]_vars

\* a tick in which one call changed the held value and another recomputed it
C1_Witness ==
  Tick /\ Len(obs.held) = 2 /\ Len(obs.notes) = 1 /\ obs.held[1] = obs.held[2]

\* C2: after every completed tick the held state is the value derived from
\* the active surfaces alone.
C2_StateDerivedAfterTick ==
  Tick => trackingState = DerivedState(planes, clock)

\* C3: the tracking state changes only in a recompute, to the derived value,
\* or at session end, to not_tracking.
C3_ChangedOnlyByRecompute ==
  [][ trackingState' # trackingState =>
        \/ /\ obs'.op = "update" /\ obs'.recomputed
           /\ trackingState' = DerivedState(planes', clock')
        \/ /\ obs'.op = "onSessionEnd"
           /\ trackingState' = NOT_TRACKING ]_vars

\* C4: a tick dispatches at most one "state changed" notification, and it
\* carries the value derived from the tick's fully updated registry.
C4_OneFinalNotificationPerTick ==
  Tick => /\ Len(obs.notes) <= 1
          /\ \A i \in 1..Len(obs.notes) :
               obs.notes[i] = DerivedState(planes, clock)

\* C5: after a sweep no surface older than the staleness window is in the
\* snapshot; the sweep keeps every surface that is not older than it; and a
\* surface older than the active window does not count for the recomputed
\* state although it is still in the snapshot.
C5_TwoWindowAging ==
  [][ (obs'.op = "update" /\ obs'.ran) =>
        /\ obs'.swept =>
             \A k \in DOMAIN planes' : ~(clock' - planes'[k].lastUpdate > timeout)
        /\ \A k \in DOMAIN planes :
             clock' - planes[k].lastUpdate < timeout => k \in DOMAIN planes'
        /\ obs'.recomputed =>
             /\ trackingState' # NOT_TRACKING =>
                  \E k \in DOMAIN planes' :
                    clock' - planes'[k].lastUpdate < ActiveTimeout
             /\ trackingState' = TRACKING =>
                  \E k \in DOMAIN planes' :
                    /\ clock' - planes'[k].lastUpdate < ActiveTimeout
                    /\ planes'[k].orientation = "vertical" ]_vars

\* after a sweep and recompute: one surface was evicted, another is older
\* than the active window, vertical, still in the snapshot, and not counted
C5_Witness ==
  /\ Tick /\ obs.swept /\ obs.recomputed
  /\ DOMAIN seenAt \ DOMAIN planes # {}
  /\ \E k \in DOMAIN planes :
       /\ clock - planes[k].lastUpdate > ActiveTimeout
       /\ planes[k].orientation = "vertical"
  /\ trackingState = NOT_TRACKING

\* the scenario of C6 at time t: "p1" was ingested at 0 and at 4900, as a
\* vertical surface, nothing else was ingested, and a tick has just ended
C6_Scenario(t) ==
  /\ clock = t
  /\ Tick /\ obs.swept /\ obs.recomputed
  /\ seenAt = [ k \in {"p1"} |-> {0, 4900} ]
  /\ "p1" \in DOMAIN planes => planes["p1"].orientation = "vertical"

\* C6 (as stated): tracking at 4900, limited at 5100, and at 10100 the
\* surface is absent and the state is not_tracking.
C6_ScenarioAsStated ==
  /\ C6_Scenario(4900) => trackingState = TRACKING
  /\ C6_Scenario(5100) => trackingState = LIMITED
  /\ C6_Scenario(10100) =>
       "p1" \notin DOMAIN planes /\ trackingState = NOT_TRACKING

\* C6 (amended): tracking at 4900; still tracking at 5100 (last seen 200 ms
\* ago); at 10100 the state is not_tracking and the surface, last seen
\* 5200 ms ago, is still in the snapshot.
C6_ScenarioAmended ==
  /\ C6_Scenario(4900) => trackingState = TRACKING
  /\ C6_Scenario(5100) =>
       "p1" \in DOMAIN planes /\ trackingState = TRACKING
  /\ C6_Scenario(10100) =>
       "p1" \in DOMAIN planes /\ trackingState = NOT_TRACKING

C6_Witness == C6_Scenario(10100) /\ obs.notes = << NOT_TRACKING >>

\* C7: a tick with an empty or absent sample set still evicts the stale
\* surfaces and recomputes the state.
C7_SweepOnEveryTick ==
  (Tick /\ ~obs.threw /\ obs.frame.detectedPlanes \in {Undefined, Some(<< >>)}) =>
    /\ \A k \in DOMAIN planes : ~(clock - planes[k].lastUpdate > timeout)
    /\ trackingState = DerivedState(planes, clock)

\* C8: the "surface detected" notifications of an operation are the ids whose
\* record the operation created, once each; an ingest of a registered id
\* emits none.
C8_DetectedOnceAtCreation ==
  [][ /\ obs'.detected = FirstNew(obs'.ingested, DOMAIN planes)
      /\ Range(obs'.ingested) \subseteq DOMAIN planes'
      /\ DOMAIN planes' \ DOMAIN planes \subseteq Range(obs'.ingested) ]_vars

\* a tick that ingested a sample of a registered surface and notified nothing
C8_Witness ==
  /\ Tick /\ Len(obs.ingested) = 1 /\ obs.detected = << >>
  /\ Cardinality(seenAt[obs.ingested[1]]) = 2

\* C9 (as stated): a record is never created under an id that was removed
\* earlier in the session, and no two surfaces share an id.
C9_IdNeverReused ==
  [][ /\ \A k \in DOMAIN planes' \ DOMAIN planes : k \notin DOMAIN seenAt
      /\ \A k \in DOMAIN planes' : planes'[k].id = k ]_vars

\* C9 (amended): the surfaces present at one time have distinct ids, each
\* the identifier its samples carry.
C9_IdsDistinctAtATime ==
  /\ \A k \in DOMAIN planes : planes[k].id = k
  /\ \A r1, r2 \in getDetectedPlanes : r1.id = r2.id => r1 = r2

\* "p1" was evicted by the sweep and created again by a later sample
C9_Witness ==
  /\ Tick /\ "p1" \in Range(obs.detected)
  /\ "p1" \in DOMAIN seenAt /\ Cardinality(seenAt["p1"]) = 2

\* C10: the pose stored for a surface created in a tick is the raw pose of
\* its first sample, whatever other surfaces were ingested before it.
C10_FilterPerSurface ==
  (Tick /\ obs.frame.detectedPlanes # Undefined) =>
    LET samples == obs.frame.detectedPlanes[1]
    IN  \A i \in 1..Len(samples) :
          (samples[i].planeId \in Range(obs.detected)
             /\ samples[i].getPose = "pose") =>
            /\ planes[samples[i].planeId].pose.position = samples[i].position
            /\ planes[samples[i].planeId].pose.orientation = samples[i].rotation

\* the first sample of a frame's planes for which frame.getPose returns a pose
RECURSIVE FirstPose(_)
FirstPose(ps) ==
  IF ps = << >> THEN Undefined
  ELSE IF Head(ps).getPose = "pose" THEN Some(Head(ps))
  ELSE FirstPose(Tail(ps))

\* C11: session end leaves no surface and the state not_tracking, and it
\* dispatches one "state changed" notification, with not_tracking, exactly
\* when the state before it was another one.
C11_SessionEndClearsAndForces ==
  [][ obs'.op = "onSessionEnd" =>
        /\ planes' = << >>
        /\ trackingState' = NOT_TRACKING
        /\ obs'.notes = (IF trackingState # NOT_TRACKING
                         THEN << NOT_TRACKING >> ELSE << >>) ]_vars

\* a session in which a sample was stored has ended, with a notification
C11_Witness ==
  /\ obs.op = "onSessionEnd" /\ obs.notes = << NOT_TRACKING >>
  /\ poseFilter.lastPosition # Undefined
  /\ getDetectedPlanes = {}

\* C12: the first sample stored in a session is stored with its raw pose,
\* not blended with what the filter kept from an earlier session.
C12_FirstSampleOfSessionUnsmoothed ==
  [][ (obs'.op = "update" /\ seenAt = << >> /\ obs'.ingested # << >>) =>
        LET k == obs'.ingested[1]
            s == FirstPose(obs'.frame.detectedPlanes[1])[1]
        IN  planes'[k].pose = [ position |-> s.position,
                                orientation |-> s.rotation ] ]_vars

\* C13: once a stop() call has resolved, and until a session is started
\* again, there is no surface to observe, the state is not_tracking, no
\* session end is still to be dispatched, and no frame can be ingested,
\* whatever callbacks run and whether or not start() is called again.
C13_NothingObservableAfterStop ==
  stopped =>
    /\ getDetectedPlanes = {}
    /\ getTrackingState = NOT_TRACKING
    /\ ~EndEventPending
    /\ ~(xrSession /\ xrRefSpace)

\* a session that stored a surface was stopped, start() was called again,
\* and an animate callback ran after it
C13_Witness ==
  /\ stopped /\ isRunning /\ fbPending > 0
  /\ eobs.op = "animate"
  /\ poseFilter.lastPosition # Undefined

\* C14: nothing a caller does to the value getDetectedPlanes returned
\* changes the surfaces of the registry.
C14_SnapshotIsDefensive ==
  [][ (eobs' # eobs /\ eobs'.op \in {"mutateRecord", "mutateSequence"}) =>
        planes' = planes ]_vars

\* C15: hitTest never raises, and it returns "no hit" when a prerequisite
\* is missing, when the frame has no result, when the first result has no
\* pose, and when reading the results or the pose throws.
C15_HitTestNeverRaises ==
  eobs.op = "hitTest" =>
    LET a == eobs.arg[1]
    IN  /\ ~eobs.raised
        /\ ( \/ ~a.ready
             \/ a.frame.getHitTestResults \in {"empty", "throws"}
             \/ a.frame.getPose \in {"null", "throws"} ) =>
             eobs.result = Undefined

\* hitTest on a live session whose frame threw returned "no hit"
C15_Witness ==
  /\ eobs.op = "hitTest" /\ eobs.arg[1].ready
  /\ eobs.arg[1].frame.getHitTestResults = "throws"
  /\ eobs.result = Undefined /\ ~eobs.raised

\* C16: a tap made while the current tick has a result with a pose, on a
\* session with a hit-test source, places an object and returns its id.
C16_TapUsesCurrentTick ==
  ( /\ eobs.op = "handleTap"
    /\ eobs.arg[1].ready
    /\ eobs.arg[1].frame = HitTestFrame("hit", "pose") ) =>
    /\ eobs.result # Undefined
    /\ \E p \in pendingPlace : Some(p.id) = eobs.result /\ p.position = HitPoint

\* a placeObject call has just resolved
PlaceResolved ==
  /\ eobs' # eobs
  /\ eobs'.op = "placeObject"
  /\ eobs'.result # Some("pending")

C18_PlacedAsCalled ==
  [][ PlaceResolved =>
        LET p == eobs'.arg[1]
            i == eobs'.result[1]
        IN  /\ i = p.id
            /\ i \notin DOMAIN arObjects
            /\ DOMAIN arObjects' = DOMAIN arObjects \cup {i}
            /\ \A k \in DOMAIN arObjects : arObjects'[k] = arObjects[k]
            /\ arObjects'[i].id = i
            /\ arObjects'[i].type = p.mode
            /\ arObjects'[i].position = p.position ]_vars

\* a placement has resolved after the mode was switched during its await
C18_Witness ==
  /\ eobs.op = "placeObject" /\ eobs.result \notin {Undefined, Some("pending")}
  /\ eobs.result[1] \in DOMAIN arObjects
  /\ arObjects[eobs.result[1]].type # currentMode

\* C19: removeObject never raises; it leaves the map without the id and
\* with every other entry as it was; and on an absent id it changes nothing.
C19_RemoveIsIdempotent ==
  [][ eobs'.op = "removeObject" =>
        LET i == eobs'.arg[1]
        IN  /\ ~eobs'.raised
            /\ DOMAIN arObjects' = DOMAIN arObjects \ {i}
            /\ \A k \in DOMAIN arObjects' : arObjects'[k] = arObjects[k]
            /\ i \notin DOMAIN arObjects =>
                 UNCHANGED << arObjects, frameObjects, neonObjects, pvars >> ]_vars

\* a second removeObject of an object that was placed, with another left
C19_Witness ==
  /\ eobs.op = "removeObject" /\ eobs.result = Some("absent")
  /\ eobs.arg[1] \in issued
  /\ \A p \in pendingPlace : p.id # eobs.arg[1]
  /\ arObjects # << >>

\* C20: updateObject on an id that is not in the map raises NotFound to
\* its caller and leaves the map and the renderer's objects as they were.
C20_UpdateOfAbsentIsNotFound ==
  [][ (eobs'.op = "updateObject" /\ eobs'.arg[1] \notin DOMAIN arObjects) =>
        /\ eobs'.raised
        /\ eobs'.result = Some(NotFound)
        /\ UNCHANGED << arObjects, frameObjects, neonObjects >> ]_vars

\* updateObject failed on an object that was placed and removed earlier
C20_Witness ==
  /\ eobs.op = "updateObject" /\ eobs.raised
  /\ eobs.arg[1] \in issued
  /\ \A p \in pendingPlace : p.id # eobs.arg[1]
  /\ arObjects # << >>

\* C21: updateObject on a present id replaces, in the stored object, the
\* fields named in the changes by their values in the changes and keeps every
\* other field; the objects stored under other ids are unchanged; and the
\* updated object is the one handed to the renderer, whose group for that id
\* takes its position while the other groups stay.
C21_UpdateIsShallowReplacement ==
  [][ ( eobs'.op = "updateObject" /\ eobs'.arg[1] \in DOMAIN arObjects ) =>
        LET i == eobs'.arg[1]
            u == eobs'.result[1].updates
            old == arObjects[i]
            new == arObjects'[i]
        IN  /\ ~eobs'.raised
            /\ DOMAIN arObjects' = DOMAIN arObjects
            /\ DOMAIN new = DOMAIN old \cup DOMAIN u
            /\ \A f \in DOMAIN u : new[f] = u[f]
            /\ \A f \in DOMAIN old \ DOMAIN u : new[f] = old[f]
            /\ \A j \in DOMAIN arObjects \ {i} : arObjects'[j] = arObjects[j]
            /\ eobs'.result[1].rendered = new
            /\ DOMAIN frameObjects' = DOMAIN frameObjects
            /\ DOMAIN neonObjects' = DOMAIN neonObjects
            /\ \A j \in DOMAIN frameObjects :
                 frameObjects'[j] = IF j = i THEN new.position
                                    ELSE frameObjects[j]
            /\ \A j \in DOMAIN neonObjects :
                 neonObjects'[j] = IF j = i THEN new.position
                                   ELSE neonObjects[j] ]_vars

\* of two stored objects, one had its style replaced and kept its position
C21_Witness ==
  /\ eobs.op = "updateObject" /\ ~eobs.raised
  /\ eobs.result[1].updates = [ style |-> "custom" ]
  /\ Cardinality(DOMAIN arObjects) = 2
  /\ arObjects[eobs.arg[1]].style = "custom"
  /\ arObjects[eobs.arg[1]].position = HitPoint
  /\ \E j \in DOMAIN arObjects : arObjects[j].style # "custom"

\* C22: in every tracking state, with or without a live session, handleTap
\* resolves: with the id of an object it has just placed, or with null; it
\* never rejects.
C22_TapNeverRejects ==
  [][ eobs'.op = "handleTap" =>
        /\ ~eobs'.raised
        /\ \/ eobs'.result = Undefined
           \/ /\ eobs'.result[1] \in issued'
              /\ eobs' # eobs => eobs'.result[1] \notin issued ]_vars

\* a tap on a session that has ended and is still held by the tracker
C22_Witness ==
  /\ eobs.op = "handleTap"
  /\ eobs.arg[1].session /\ eobs.arg[1].ended
  /\ eobs.result = Undefined /\ ~eobs.raised

\* C23: the mode is one of the two kinds and is the frame kind after
\* construction; after setMode(m), getMode() returns m; and no operation but
\* setMode changes the mode.
C23_ModeSetOnlyBySetMode ==
  /\ getMode = FRAME
  /\ [][ /\ getMode' \in ARModes
         /\ eobs'.op = "setMode" => getMode' = eobs'.arg[1]
         /\ getMode' # getMode =>
              eobs'.op = "setMode" /\ eobs'.arg = Some(getMode') ]_vars

\* the mode was switched to neon and then kept through a placement, a tick
\* of a running session and a tap
C23_Witness ==
  /\ getMode = NEON
  /\ eobs.op = "handleTap"
  /\ isRunning /\ xrSession /\ ~ended
  /\ \E i \in DOMAIN arObjects : arObjects[i].type = NEON

\* the invocations in which every event of events reaches callback once
OnceEach(callback, events) ==
  [ n \in 1..Len(events) |-> [ callback |-> callback, event |-> events[n] ] ]

\* C24: each event kind has at most one subscriber: every event of a kind
\* invokes the callback registered last for that kind, once, and no other
\* callback; before any registration it invokes none.
C24_OnlyLatestSubscriberInvoked ==
  /\ InvokedTrackingStateChanged =
       IF registered.trackingStateChanged = << >> THEN << >>
       ELSE OnceEach(Last(registered.trackingStateChanged), obs.notes)
  /\ InvokedPlaneDetected =
       IF registered.planeDetected = << >> THEN << >>
       ELSE OnceEach(Last(registered.planeDetected), obs.detected)

\* after a second registration for each kind, a tick detects a surface and
\* changes the tracking state
C24_Witness ==
  /\ registered.trackingStateChanged = << "a", "b" >>
  /\ Len(registered.planeDetected) >= 1
  /\ obs.notes # << >>
  /\ obs.detected # << >>
  /\ InvokedTrackingStateChanged = OnceEach("b", obs.notes)

\* C34: a sample ingested for id X leaves under X a whole new record whose
\* id is X and whose lastUpdate is the time of the ingest, not earlier than
\* the one it replaces; the ingests of a tick leave the records of the other
\* surfaces as they were (a surface the sweep of the same tick evicts is
\* removed, not changed).
C34_IngestReplacesOnlyItsRecord ==
  [][ ( obs.op = "idle" /\ obs'.op = "update" ) =>
        LET ingested == Range(obs'.ingested)
        IN  /\ \A X \in ingested :
                 /\ X \in DOMAIN planes'
                 /\ planes'[X].id = X
                 /\ planes'[X].lastUpdate = clock'
                 /\ DOMAIN planes'[X] =
                      {"id", "pose", "polygon", "orientation", "lastUpdate"}
                 /\ X \in DOMAIN planes =>
                      planes[X].lastUpdate <= planes'[X].lastUpdate
            /\ DOMAIN planes' \subseteq DOMAIN planes \cup ingested
            /\ \A j \in DOMAIN planes' \ ingested : planes'[j] = planes[j] ]_vars

\* a surface was ingested on a later tick than another surface, which stayed
\* in the registry with its record
C34_Witness ==
  /\ obs.op = "update"
  /\ obs.ingested = << "p1" >>
  /\ "p2" \in DOMAIN planes
  /\ planes["p1"].lastUpdate = clock
  /\ planes["p1"].lastUpdate > planes["p2"].lastUpdate

\* C31: an initialize() attempt in which the camera permission is denied or
\* the tracking session cannot be set up fails and leaves isInitialized as it
\* was, and start() on an engine that is not initialized fails.
C31_InitFailureIsFatal ==
  [][ /\ ( /\ eobs'.op = "initialize"
           /\ \/ eobs'.arg[1].permission = "denied"
              \/ eobs'.arg[1].outcome \notin {"ok", "no_hit_test"} )
         => ( eobs'.raised /\ isInitialized' = isInitialized )
      /\ ( eobs'.op = "start" /\ ~isInitialized' ) => eobs'.raised ]_vars

\* C32: a tick never raises to the frame loop, whatever the frame delivers:
\* a tick that hits an error of the subsystem ends with the state limited,
\* and after every tick of a running loop the next frame callback is
\* registered, so that later ticks are processed.
C32_TickNeverRaises ==
  [][ ( obs.op = "idle" /\ obs'.op = "update" ) =>
        /\ ~updateRaises(obs'.threw)
        /\ obs'.threw => trackingState' = LIMITED
        /\ isRunning => xrPending' = xrPending ]_vars

\* after a tick that hit an error, a later tick that sees a wall brings the
\* state back to tracking, and the loop goes on
C32_Witness ==
  /\ erred
  /\ obs.op = "update" /\ ~obs.threw
  /\ obs.ingested # << >>
  /\ trackingState = TRACKING
  /\ isRunning /\ xrPending > 0

\* C33: after any sequence of completed placeObject, updateObject (with any
\* field changes, kind and id included) and removeObject calls, the ids the
\* renderer holds are the ids of the engine's map.
C33_RendererMirrorsMap ==
  DOMAIN frameObjects \cup DOMAIN neonObjects = DOMAIN arObjects

\* C35: every entry of the placed-object map is stored under the key equal
\* to the object's own id field, and no operation changes the kind of a
\* stored object.
C35_KeyIsIdAndKindIsFixed ==
  [][ \A k \in DOMAIN arObjects' :
        /\ arObjects'[k].id = k
        /\ k \in DOMAIN arObjects => arObjects'[k].type = arObjects[k].type ]_vars

\* C36: at most one frame-loop chain is live per engine: after any sequence
\* of start() and stop() calls at most one frame callback is pending, so
\* that each frame triggers at most one registry update and one render.
C36_OneLoopChain ==
  xrPending + fbPending <= 1

\* C37: after dispose() the placed-object map is empty and stays empty, also
\* when a placeObject was awaiting its styling recommendation at dispose().
C37_EmptyAfterDispose ==
  disposed => arObjects = << >>

C40_BoundedAttempts ==
  (aobs.op # "none" /\ aobs.served # "cache") =>
    LET m == aobs.made
    IN  /\ 1 <= m.fetches /\ m.fetches <= aobs.maxRetries
        /\ m.waits = [ i \in 1..(m.fetches - 1) |-> (2 ^ (i - 1)) * 1000 ]
        /\ m.outcome \in {"returned", "threw"}
        /\ m.outcome = "returned" => Len(m.errors) = m.fetches - 1
        /\ m.outcome = "threw" =>
              /\ Len(m.errors) = m.fetches
              /\ m.value = m.errors[Len(m.errors)]

(***************************************************************************)
(* The PoseFilter on its own                                               *)
(***************************************************************************)
\* the value returned by the last filter() call
Out == fhist.out[1]

\* ms elapsed, at the last call, since the run that began at since
ElapsedSince(since) == clock - since[1]

\* C25 (as stated): isStable becomes true no earlier than the moment the
\* stabilization window has elapsed since the run of displacements below the
\* jitter threshold began, and no later than one tick after that moment: it
\* is false while the window has not elapsed, and true on the tick that
\* follows a tick at which the window had elapsed and the run goes on.
C25_AsStated ==
  [][ fhist'.op = "filter" =>
        /\ fhist'.out[1].isStable =>
              /\ fhist'.lowSince # Undefined
              /\ clock' - fhist'.lowSince[1] >= poseFilter.options.stabilizationTime
        /\ ( /\ fhist.op = "filter"
             /\ fhist.lowSince # Undefined
             /\ fhist'.lowSince = fhist.lowSince
             /\ ElapsedSince(fhist.lowSince) >= poseFilter.options.stabilizationTime )
           => fhist'.out[1].isStable ]_vars

\* C25 (amended): isStable is true on exactly the ticks at which the
\* stabilization window has elapsed since the start of the current run of
\* ticks on which the displacement and the mean of the last (at most 10)
\* displacements are both below the jitter threshold, a run that also starts
\* at the first sample of a fresh filter.
C25_StableAfterWindowOfLowMotionAndLowMean ==
  fhist.op = "filter" =>
    ( Out.isStable <=>
        /\ fhist.bothSince # Undefined
        /\ ElapsedSince(fhist.bothSince) >= poseFilter.options.stabilizationTime )

\* the window elapses on a tick, and on an earlier tick of the same run it
\* had not
C25_Witness ==
  /\ fhist.op = "filter"
  /\ Out.isStable
  /\ fhist.calls >= 3
  /\ fhist.spikeAt # Undefined
  /\ ElapsedSince(fhist.bothSince) = poseFilter.options.stabilizationTime

\* C26: a sample whose displacement is at or above the jitter threshold
\* resets the stabilization clock: isStable is false on that tick, and on
\* every later tick on which it is true a run of displacements below the
\* threshold began after that sample and has lasted a full window.
C26_SpikeRestartsClock ==
  fhist.op = "filter" =>
    /\ ( /\ fhist.disp # Undefined
         /\ fhist.disp[1] >= poseFilter.options.maxJitterThreshold )
       => /\ ~Out.isStable
          /\ ~getStabilityState(poseFilter)
          /\ poseFilter.stabilizationStartTime = Undefined
    /\ ( fhist.spikeAt # Undefined /\ Out.isStable )
       => /\ fhist.lowSince # Undefined
          /\ fhist.lowSince[1] > fhist.spikeAt[1]
          /\ ElapsedSince(fhist.lowSince) >= poseFilter.options.stabilizationTime

\* stable again after a sample at or above the threshold
C26_Witness ==
  /\ fhist.op = "filter"
  /\ fhist.spikeAt # Undefined
  /\ Out.isStable

\* alpha * previous + (1 - alpha) * raw, to the millimetre
Blend(previous, raw, alpha) == (previous * alpha + raw * (10 - alpha)) \div 10

\* C27: on every call but the first of a filter, each coordinate of the
\* returned position is alpha times the coordinate returned by the preceding
\* call plus (1 - alpha) times the raw coordinate, alpha being the position
\* smoothing factor; with alpha = 0.8, (0,0,0) followed by (1,0,0) returns
\* (0.2,0,0).
C27_SmoothedFromPreviousOutput ==
  ( fhist.op = "filter" /\ fhist.prev # Undefined ) =>
    /\ \A i \in 1..3 :
         Out.position[i] =
           Blend(fhist.prev[1].position[i], fhist.raw[1].position[i],
                 poseFilter.options.positionSmoothingFactor)
    /\ ( /\ poseFilter.options.positionSmoothingFactor = 8
         /\ fhist.prev[1].position = << 0, 0, 0 >>
         /\ fhist.raw[1].position = << 1000, 0, 0 >> )
       => Out.position = << 200, 0, 0 >>

\* the third call of a filter, whose previous output differs from the
\* previous raw sample
C27_Witness ==
  /\ fhist.op = "filter"
  /\ Len(fhist.deltas) = 2
  /\ fhist.prev[1].position = << 200, 0, 0 >>
  /\ fhist.raw[1].position = << 0, 0, 0 >>
  /\ Out.position = << 160, 0, 0 >>

Min(a, b) == IF a <= b THEN a ELSE b
Max(a, b) == IF a >= b THEN a ELSE b

\* C28: under every configuration the filter accepts, through the
\* constructor or through updateOptions, each coordinate of the returned
\* position lies between the coordinate returned by the preceding call and
\* the raw coordinate.
C28_OutputBetweenPreviousAndRaw ==
  ( fhist.op = "filter" /\ fhist.prev # Undefined ) =>
    \A i \in 1..3 :
      /\ Min(fhist.prev[1].position[i], fhist.raw[1].position[i])
           <= Out.position[i]
      /\ Out.position[i]
           <= Max(fhist.prev[1].position[i], fhist.raw[1].position[i])

\* C29: the first call of a filter returns the raw pose unchanged with
\* isStable false and starts the stabilization clock at the time of the
\* call; reset() clears all state, so that after it the filter is the filter
\* a constructor call with the same options returns, and its next call is a
\* first call.
C29_ResetGivesFreshFilter ==
  [][ /\ fhist'.op = "reset" =>
           /\ poseFilter' = PoseFilterNew(poseFilter.options)
           /\ ~getStabilityState(poseFilter')
      /\ ( fhist'.op = "filter" /\ fhist.out = Undefined ) =>
           /\ fhist'.out[1] = [ position |-> fhist'.raw[1].position,
                                rotation |-> fhist'.raw[1].rotation,
                                isStable |-> FALSE ]
           /\ poseFilter'.stabilizationStartTime = Some(clock')
           /\ poseFilter' =
                filter(PoseFilterNew(poseFilter.options),
                       fhist'.raw[1].position, fhist'.raw[1].rotation,
                       clock').f ]_vars

\* a filter with options of its own that holds a displacement history has
\* been reset and called again
C29_Witness ==
  /\ fhist.op = "filter"
  /\ fhist.prev = Undefined
  /\ fhist.calls >= 3
  /\ poseFilter.options.positionSmoothingFactor = 5
  /\ fhist.raw[1].rotation = 900
  /\ Out.position = << 1000, 0, 0 >>
  /\ poseFilter.velocityHistory = << >>

\* C39: the displacement history never holds more than 10 entries; it holds
\* the displacements of the latest calls, so that an 11th displacement evicts
\* the oldest one; and reset() empties it.
C39_HistoryKeepsLatestTen ==
  /\ Len(poseFilter.velocityHistory) <= 10
  /\ poseFilter.velocityHistory = LastN(fhist.deltas, 10)
  /\ fhist.op = "reset" => poseFilter.velocityHistory = << >>

\* an 11th displacement has been appended and the oldest one, which differs
\* from the second oldest, is gone
C39_Witness ==
  /\ fhist.op = "filter"
  /\ Len(fhist.deltas) = 11
  /\ fhist.deltas[1] # fhist.deltas[2]
  /\ Len(poseFilter.velocityHistory) = 10
  /\ poseFilter.velocityHistory[1] = fhist.deltas[2]
  /\ poseFilter.velocityHistory[10] = fhist.deltas[11]

(***************************************************************************)
(* The surface cap                                                         *)
(***************************************************************************)
\* C30: the registry never holds more surfaces than the surface cap the
\* engine was configured with (maxPlanes, 10 by default).
C30_RegistryWithinCap ==
  \A config \in EngineConfigs :
    Cardinality(DOMAIN planes) <= AREngineConfig(config).maxPlanes
====
